---- MODULE Spec2Model ----
(***************************************************************************)
(* Verification model of the audio-transcript-analysis repository.         *)
(*                                                                         *)
(*   Spec          the CircuitBreaker of functions/src/circuitBreaker.ts:  *)
(*                 execute() is split at its only suspension point, the    *)
(*                 `await fn()`, so several calls can be in flight.        *)
(*   SpecPipeline  the transcribeAudio storage trigger, one step per       *)
(*                 awaited call of the handler.                            *)
(***************************************************************************)
EXTENDS Integers, Sequences, FiniteSets, TLC

(* ------------------------------ bounds -------------------------------- *)
MaxThreshold == 2
MaxHalfOpen == 2
MaxResetTimeout == 2
MaxTime == 3
MaxRequests == 4
MaxInFlight == 2

VARIABLES
  config,     \* CircuitBreakerConfig given to the constructor
  cb,         \* the private fields of the CircuitBreaker
  now,        \* Date.now()
  inflight,   \* execute() calls suspended in `await fn()`, per kind of call
  last,       \* history: the last operation, the fields before it, its result
  failRun,    \* history: failed operations since the last success or reset
  succRun,    \* history: successes in a row observed in half-open
  nExecute,   \* history: execute() calls made
  nOpFailed,  \* history: calls whose operation ran and failed
  openedAt,   \* history: when a recorded failure last opened the breaker
  event,      \* the storage event handed to transcribeAudio
  pc,         \* the await the transcribeAudio handler is suspended in
  doc,        \* the conversations/{conversationId} document
  progress,   \* the progress marker kept by the ProgressManager
  wx,         \* whisperxResult.segments of the handler
  built,      \* const whisperxSegments of the handler
  analysis,   \* const analysis of the handler
  merged,     \* const processedData of the handler
  errorMessage, \* const errorMessage of the catch block
  outcome,    \* history: how the alignment and the analysis call ended
  faults,     \* history: the other awaited calls that failed
  view,       \* the React state of the Viewer component
  closure,    \* what handleMetadata captured when the audio effect ran
  audio,      \* the HTMLAudioElement of the audio effect
  session,    \* history: the playback session and what it has done
  player,     \* the AudioPlayer component, its props and the drag in progress
  previous,   \* the audio element that a switch replaced, with its listeners
  circuits,   \* replicateCircuit and geminiCircuit, and the calls made on them
  app,        \* the App's copy of the open conversation, as saved, over sessions
  reader      \* the transcript pane: the current time shown and the auto-scrolls

cbVars == <<config, cb, now, inflight, last, failRun, succRun, nExecute, nOpFailed,
           openedAt>>

jobVars == <<event, pc, doc, progress, wx, built, analysis, merged,
             errorMessage, outcome, faults>>

viewVars == <<view, closure, audio, session>>

playerVars == <<player>>

switchVars == <<previous>>

circuitVars == <<circuits>>

appVars == <<app>>

readerVars == <<reader>>

vars == <<cbVars, jobVars, viewVars, playerVars, switchVars, circuitVars, appVars,
         readerVars>>

(* ----------------------- CircuitBreaker: the code ---------------------- *)

CircuitState == {"closed", "open", "half-open"}

\* lastFailureTime?: number  -- <<>> is undefined, <<t>> is the number t
NoTime == <<>>

\* the field initialisers of the class
NewBreaker ==
  [state |-> "closed", failureCount |-> 0, successCount |-> 0,
   lastFailureTime |-> NoTime, totalRequests |-> 0, totalFailures |-> 0]

\* private transitionTo(newState)
transitionTo(b, newState) ==
  IF b.state = newState THEN b ELSE [b EXCEPT !.state = newState]

\* variant: the timeout test written with > instead of >=
timeoutElapsed_strict(b, cfg, t) ==
  IF b.lastFailureTime # NoTime /\ b.lastFailureTime[1] # 0
    THEN t - b.lastFailureTime[1] > cfg.resetTimeout
    ELSE TRUE

\* `this.lastFailureTime ? now - this.lastFailureTime : Infinity` compared
\* with resetTimeout: undefined and 0 are falsy and give Infinity
timeoutElapsed(b, cfg, t) ==
  IF b.lastFailureTime # NoTime /\ b.lastFailureTime[1] # 0
    THEN t - b.lastFailureTime[1] >= cfg.resetTimeout
    ELSE TRUE

\* variant: an open breaker probes at once, whatever the time since the failure
isAllowed_noWait(b, cfg, t) ==
  IF b.state = "open"
    THEN [allowed |-> TRUE, b |-> transitionTo(b, "half-open")]
    ELSE [allowed |-> TRUE, b |-> b]

\* isAllowed(): the returned boolean and the fields afterwards
isAllowed(b, cfg, t) ==
  IF b.state = "closed" THEN [allowed |-> TRUE, b |-> b]
  ELSE IF b.state = "open" THEN
    IF timeoutElapsed(b, cfg, t)
      THEN [allowed |-> TRUE, b |-> transitionTo(b, "half-open")]
      ELSE [allowed |-> FALSE, b |-> b]
  ELSE [allowed |-> TRUE, b |-> b]

\* variant: reset() that forgets to clear lastFailureTime
reset_keepTime(b) ==
  [transitionTo(b, "closed") EXCEPT !.failureCount = 0, !.successCount = 0]

\* reset()
reset(b) ==
  [transitionTo(b, "closed") EXCEPT
     !.failureCount = 0, !.successCount = 0, !.lastFailureTime = NoTime]

\* variant: the half-open test written with > instead of >=
onSuccess_gt(b, cfg) ==
  LET b1 == [b EXCEPT !.failureCount = 0] IN
  IF b1.state = "half-open" THEN
    LET b2 == [b1 EXCEPT !.successCount = @ + 1] IN
    IF b2.successCount > cfg.halfOpenRequests
      THEN [transitionTo(b2, "closed") EXCEPT !.successCount = 0]
      ELSE b2
  ELSE b1

\* variant: onSuccess() that resets failureCount only when it closes the breaker
onSuccess_keepFailures(b, cfg) ==
  IF b.state = "half-open" THEN
    LET b2 == [b EXCEPT !.successCount = @ + 1] IN
    IF b2.successCount >= cfg.halfOpenRequests
      THEN [transitionTo(b2, "closed") EXCEPT !.successCount = 0, !.failureCount = 0]
      ELSE b2
  ELSE b

\* variant: a success also closes an open breaker, so a call admitted before
\* the breaker opened can close it again when it resolves
onSuccess_closesOpen(b, cfg) ==
  LET b1 == [b EXCEPT !.failureCount = 0] IN
  IF b1.state = "half-open" THEN
    LET b2 == [b1 EXCEPT !.successCount = @ + 1] IN
    IF b2.successCount >= cfg.halfOpenRequests
      THEN [transitionTo(b2, "closed") EXCEPT !.successCount = 0]
      ELSE b2
  ELSE transitionTo(b1, "closed")

\* private onSuccess()
onSuccess(b, cfg) ==
  LET b1 == [b EXCEPT !.failureCount = 0] IN
  IF b1.state = "half-open" THEN
    LET b2 == [b1 EXCEPT !.successCount = @ + 1] IN
    IF b2.successCount >= cfg.halfOpenRequests
      THEN [transitionTo(b2, "closed") EXCEPT !.successCount = 0]
      ELSE b2
  ELSE b1

\* variant: the threshold test written with > instead of >=
onFailure_gt(b, cfg, t) ==
  LET b1 == [b EXCEPT !.failureCount = @ + 1,
                      !.totalFailures = @ + 1,
                      !.lastFailureTime = <<t>>] IN
  IF b1.state = "half-open"
    THEN [transitionTo(b1, "open") EXCEPT !.successCount = 0]
  ELSE IF b1.failureCount > cfg.failureThreshold
    THEN transitionTo(b1, "open")
  ELSE b1

\* variant: the threshold is tested first, so a half-open failure below the
\* threshold neither reopens the breaker nor clears successCount
onFailure_thresholdFirst(b, cfg, t) ==
  LET b1 == [b EXCEPT !.failureCount = @ + 1,
                      !.totalFailures = @ + 1,
                      !.lastFailureTime = <<t>>] IN
  IF b1.failureCount >= cfg.failureThreshold
    THEN transitionTo(b1, "open")
  ELSE b1

\* variant: a half-open failure reopens the breaker and keeps successCount
onFailure_keepSuccess(b, cfg, t) ==
  LET b1 == [b EXCEPT !.failureCount = @ + 1,
                      !.totalFailures = @ + 1,
                      !.lastFailureTime = <<t>>] IN
  IF b1.state = "half-open"
    THEN transitionTo(b1, "open")
  ELSE IF b1.failureCount >= cfg.failureThreshold
    THEN transitionTo(b1, "open")
  ELSE b1

\* private onFailure(error)
onFailure(b, cfg, t) ==
  LET b1 == [b EXCEPT !.failureCount = @ + 1,
                      !.totalFailures = @ + 1,
                      !.lastFailureTime = <<t>>] IN
  IF b1.state = "half-open"
    THEN [transitionTo(b1, "open") EXCEPT !.successCount = 0]
  ELSE IF b1.failureCount >= cfg.failureThreshold
    THEN transitionTo(b1, "open")
  ELSE b1

\* variant: totalRequests counts only the calls that are let through
executeEntry_countAllowed(b, cfg, t) ==
  LET r == isAllowed(b, cfg, t) IN
  IF r.allowed
    THEN [allowed |-> TRUE, b |-> [r.b EXCEPT !.totalRequests = @ + 1]]
    ELSE r

\* execute(): from the call to the first suspension or the early exit
executeEntry(b, cfg, t) ==
  isAllowed([b EXCEPT !.totalRequests = @ + 1], cfg, t)

(* ------------------- CircuitBreaker: the state machine ----------------- *)

\* an in-flight call remembers the state it was admitted in and whether the
\* caller supplied a fallback
CallKinds == [adm : {"closed", "half-open"}, fb : BOOLEAN]

RECURSIVE SumOver(_, _)
SumOver(f, S) ==
  IF S = {} THEN 0
  ELSE LET x == CHOOSE y \in S : TRUE IN f[x] + SumOver(f, S \ {x})

InFlightCount == SumOver(inflight, CallKinds)

NoRun == [n |-> 0, from |-> "none"]

InitLast ==
  [op |-> "new", pre |-> NewBreaker, at |-> 1, fb |-> FALSE,
   result |-> "none", fnInvoked |-> FALSE, fallbackInvoked |-> FALSE]

CBInit ==
  /\ config \in [failureThreshold : 1..MaxThreshold,
                 resetTimeout : 1..MaxResetTimeout,
                 halfOpenRequests : 1..MaxHalfOpen]
  /\ cb = NewBreaker
  /\ now = 1
  /\ inflight = [k \in CallKinds |-> 0]
  /\ last = InitLast
  /\ failRun = NoRun
  /\ succRun = 0
  /\ nExecute = 0
  /\ nOpFailed = 0
  /\ openedAt = NoTime

\* execute(fn, fallback) is called and is refused: the fallback's result or
\* the breaker's own error comes back, fn is never called
ExecuteRejected(fb) ==
  LET r == executeEntry(cb, config, now) IN
  /\ cb.totalRequests < MaxRequests
  /\ ~r.allowed
  /\ cb' = r.b
  /\ last' = [op |-> "execute", pre |-> cb, at |-> now, fb |-> fb,
              result |-> IF fb THEN "fallback result" ELSE "circuit open error",
              fnInvoked |-> FALSE, fallbackInvoked |-> fb]
  /\ nExecute' = nExecute + 1
  /\ UNCHANGED <<config, now, inflight, failRun, succRun, nOpFailed, openedAt>>
  /\ UNCHANGED <<jobVars, viewVars, playerVars, switchVars, circuitVars, appVars, readerVars>>

\* execute(fn, fallback) is called, is let through and suspends in fn()
ExecuteAdmitted(fb) ==
  LET r == executeEntry(cb, config, now) IN
  /\ cb.totalRequests < MaxRequests
  /\ InFlightCount < MaxInFlight
  /\ r.allowed
  /\ cb' = r.b
  /\ inflight' = [inflight EXCEPT ![[adm |-> r.b.state, fb |-> fb]] = @ + 1]
  /\ last' = [op |-> "execute", pre |-> cb, at |-> now, fb |-> fb,
              result |-> "pending", fnInvoked |-> TRUE, fallbackInvoked |-> FALSE]
  /\ nExecute' = nExecute + 1
  /\ succRun' = IF cb.state = "open" THEN 0 ELSE succRun
  /\ UNCHANGED <<config, now, failRun, nOpFailed, openedAt>>
  /\ UNCHANGED <<jobVars, viewVars, playerVars, switchVars, circuitVars, appVars, readerVars>>

\* fn() of an in-flight call resolves: onSuccess(), the value is returned
FnResolves(k) ==
  /\ inflight[k] > 0
  /\ inflight' = [inflight EXCEPT ![k] = @ - 1]
  /\ cb' = onSuccess(cb, config)
  /\ last' = [op |-> "success", pre |-> cb, at |-> now, fb |-> k.fb,
              result |-> "fn result", fnInvoked |-> TRUE, fallbackInvoked |-> FALSE]
  /\ failRun' = NoRun
  /\ succRun' = IF cb.state = "half-open" THEN succRun + 1 ELSE 0
  /\ UNCHANGED <<config, now, nExecute, nOpFailed, openedAt>>
  /\ UNCHANGED <<jobVars, viewVars, playerVars, switchVars, circuitVars, appVars, readerVars>>

\* variant: a failed operation is answered by the caller's fallback
FnRejects_fallback(k) ==
  /\ inflight[k] > 0
  /\ inflight' = [inflight EXCEPT ![k] = @ - 1]
  /\ cb' = onFailure(cb, config, now)
  /\ last' = [op |-> "failure", pre |-> cb, at |-> now, fb |-> k.fb,
              result |-> IF k.fb THEN "fallback result" ELSE "fn error",
              fnInvoked |-> TRUE, fallbackInvoked |-> k.fb]
  /\ failRun' = [n |-> failRun.n + 1,
                 from |-> IF failRun.n = 0 THEN cb.state ELSE failRun.from]
  /\ succRun' = 0
  /\ nOpFailed' = nOpFailed + 1
  /\ openedAt' = IF cb.state # "open" /\ onFailure(cb, config, now).state = "open"
                   THEN <<now>> ELSE openedAt
  /\ UNCHANGED <<config, now, nExecute>>
  /\ UNCHANGED <<jobVars, viewVars, playerVars, switchVars, circuitVars, appVars, readerVars>>

\* fn() of an in-flight call rejects: onFailure(error), the error is rethrown
FnRejects(k) ==
  /\ inflight[k] > 0
  /\ inflight' = [inflight EXCEPT ![k] = @ - 1]
  /\ cb' = onFailure(cb, config, now)
  /\ last' = [op |-> "failure", pre |-> cb, at |-> now, fb |-> k.fb,
              result |-> "fn error", fnInvoked |-> TRUE, fallbackInvoked |-> FALSE]
  /\ failRun' = [n |-> failRun.n + 1,
                 from |-> IF failRun.n = 0 THEN cb.state ELSE failRun.from]
  /\ succRun' = 0
  /\ nOpFailed' = nOpFailed + 1
  /\ openedAt' = IF cb.state # "open" /\ onFailure(cb, config, now).state = "open"
                   THEN <<now>> ELSE openedAt
  /\ UNCHANGED <<config, now, nExecute>>
  /\ UNCHANGED <<jobVars, viewVars, playerVars, switchVars, circuitVars, appVars, readerVars>>

\* a caller asks isAllowed() directly
IsAllowedCall ==
  LET r == isAllowed(cb, config, now) IN
  /\ cb' = r.b
  /\ last' = [op |-> "isAllowed", pre |-> cb, at |-> now, fb |-> FALSE,
              result |-> IF r.allowed THEN "true" ELSE "false",
              fnInvoked |-> FALSE, fallbackInvoked |-> FALSE]
  /\ succRun' = IF cb.state = "open" /\ r.allowed THEN 0 ELSE succRun
  /\ UNCHANGED <<config, now, inflight, failRun, nExecute, nOpFailed, openedAt>>
  /\ UNCHANGED <<jobVars, viewVars, playerVars, switchVars, circuitVars, appVars, readerVars>>

\* a caller asks reset()
ResetCall ==
  /\ cb' = reset(cb)
  /\ last' = [op |-> "reset", pre |-> cb, at |-> now, fb |-> FALSE,
              result |-> "none", fnInvoked |-> FALSE, fallbackInvoked |-> FALSE]
  /\ failRun' = NoRun
  /\ succRun' = 0
  /\ openedAt' = NoTime
  /\ UNCHANGED <<config, now, inflight, nExecute, nOpFailed>>
  /\ UNCHANGED <<jobVars, viewVars, playerVars, switchVars, circuitVars, appVars, readerVars>>

\* the clock advances
Tick ==
  /\ now < MaxTime
  /\ now' = now + 1
  /\ UNCHANGED <<config, cb, inflight, last, failRun, succRun, nExecute, nOpFailed, openedAt>>
  /\ UNCHANGED <<jobVars, viewVars, playerVars, switchVars, circuitVars, appVars, readerVars>>

CBNext ==
  \/ \E fb \in BOOLEAN : ExecuteRejected(fb)
  \/ \E fb \in BOOLEAN : ExecuteAdmitted(fb)
  \/ \E k \in CallKinds : FnResolves(k)
  \/ \E k \in CallKinds : FnRejects(k)
  \/ IsAllowedCall
  \/ ResetCall
  \/ Tick

(* ------------------------ CircuitBreaker: claims ----------------------- *)

\* the breaker b is open and less than resetTimeout has passed at time t
\* since its last recorded failure
OpenAndWaiting(b, t) ==
  /\ b.state = "open"
  /\ b.lastFailureTime # NoTime
  /\ t - b.lastFailureTime[1] < config.resetTimeout

\* the breaker b is open and resetTimeout has passed at time t
OpenAndElapsed(b, t) ==
  /\ b.state = "open"
  /\ b.lastFailureTime # NoTime
  /\ t - b.lastFailureTime[1] >= config.resetTimeout

\* C1: in a run of consecutive failed execute() calls that began on a closed
\* breaker, the breaker is still closed after fewer than failureThreshold
\* failures and open after exactly failureThreshold failures.
C1_ThresholdOpens ==
  (last.op = "failure" /\ failRun.from = "closed") =>
    /\ (failRun.n < config.failureThreshold => cb.state = "closed")
    /\ (failRun.n = config.failureThreshold => cb.state = "open")

C1_Witness ==
  /\ last.op = "failure" /\ failRun.from = "closed"
  /\ config.failureThreshold = 2 /\ failRun.n = 2
  /\ last.pre.state = "closed" /\ cb.state = "open"

\* C2: execute(fn) without a fallback, called on an open breaker before
\* resetTimeout has passed, rejects with the breaker's own 'service
\* unavailable' error (not an error of fn), fn is not invoked and the breaker
\* stays open.
C2_OpenRejects ==
  (last.op = "execute" /\ OpenAndWaiting(last.pre, last.at) /\ ~last.fb) =>
    /\ last.result = "circuit open error"
    /\ last.result # "fn error"
    /\ ~last.fnInvoked
    /\ cb.state = "open"

C2_Witness ==
  /\ last.op = "execute" /\ OpenAndWaiting(last.pre, last.at) /\ ~last.fb
  /\ last.result = "circuit open error"

\* C3: execute(fn, fallback), called on an open breaker before resetTimeout
\* has passed, returns the fallback's result and does not invoke fn.
C3_OpenFallback ==
  (last.op = "execute" /\ OpenAndWaiting(last.pre, last.at) /\ last.fb) =>
    /\ last.result = "fallback result"
    /\ last.fallbackInvoked
    /\ ~last.fnInvoked

C3_Witness ==
  /\ last.op = "execute" /\ OpenAndWaiting(last.pre, last.at) /\ last.fb
  /\ last.result = "fallback result"

\* C4: on an open breaker, isAllowed() before resetTimeout has passed returns
\* false and leaves the breaker open; the first isAllowed() or execute()
\* check at or after resetTimeout returns true (lets the call through) and
\* makes the breaker half-open; and the breaker becomes half-open in no other
\* step than such a check.
C4_Checks ==
  /\ (last.op = "isAllowed" /\ OpenAndWaiting(last.pre, last.at)) =>
       (last.result = "false" /\ cb.state = "open")
  /\ (last.op = "isAllowed" /\ OpenAndElapsed(last.pre, last.at)) =>
       (last.result = "true" /\ cb.state = "half-open")
  /\ (last.op = "execute" /\ OpenAndElapsed(last.pre, last.at)) =>
       (last.fnInvoked /\ cb.state = "half-open")

C4_OnlyByCheck ==
  (cb.state # "half-open" /\ cb'.state = "half-open") =>
    /\ OpenAndElapsed(cb, now)
    /\ last'.op \in {"isAllowed", "execute"}
    /\ last'.pre = cb

C4_LazyHalfOpen == []C4_Checks /\ [][C4_OnlyByCheck]_vars

C4_Witness ==
  /\ last.op = "isAllowed" /\ OpenAndElapsed(last.pre, last.at)
  /\ last.at - last.pre.lastFailureTime[1] = config.resetTimeout
  /\ cb.state = "half-open"

\* C5: a success observed in half-open leaves the breaker half-open while
\* fewer than halfOpenRequests successes in a row have been observed there,
\* and the halfOpenRequests-th closes it with failureCount = 0 and
\* successCount = 0.
C5_HalfOpenCloses ==
  (last.op = "success" /\ last.pre.state = "half-open") =>
    /\ (succRun < config.halfOpenRequests => cb.state = "half-open")
    /\ (succRun = config.halfOpenRequests =>
          cb.state = "closed" /\ cb.failureCount = 0 /\ cb.successCount = 0)
    /\ succRun <= config.halfOpenRequests

C5_Witness ==
  /\ last.op = "success" /\ last.pre.state = "half-open"
  /\ config.halfOpenRequests = 2 /\ succRun = 2
  /\ cb.state = "closed"

\* C6: a failed execute() observed in half-open opens the breaker at once,
\* whatever failureThreshold and the successes counted so far, and sets
\* successCount to 0.
C6_HalfOpenFailureReopens ==
  (last.op = "failure" /\ last.pre.state = "half-open") =>
    (cb.state = "open" /\ cb.successCount = 0)

C6_Witness ==
  /\ last.op = "failure" /\ last.pre.state = "half-open"
  /\ last.pre.successCount = 1
  /\ cb.failureCount < config.failureThreshold
  /\ cb.state = "open"

\* C7: a successful execute() sets failureCount to 0, and a closed breaker
\* opens only in a failure that completes a run of at least failureThreshold
\* failures with no success between them.
C7_SuccessClears == last.op = "success" => cb.failureCount = 0

C7_OpensOnlyOnRun ==
  (cb.state = "closed" /\ cb'.state = "open") =>
    (last'.op = "failure" /\ failRun'.n >= config.failureThreshold)

C7_SuccessResetsFailures == []C7_SuccessClears /\ [][C7_OpensOnlyOnRun]_vars

C7_Witness ==
  /\ last.op = "failure" /\ cb.state = "closed"
  /\ config.failureThreshold = 2
  /\ cb.totalFailures >= 2 /\ failRun.n = 1

\* C8: totalRequests is the number of execute() calls made, refused ones
\* included, totalFailures is the number of calls whose operation ran and
\* failed, and a refused call leaves failureCount, totalFailures and
\* lastFailureTime as they were.
C8_Totals ==
  /\ cb.totalRequests = nExecute
  /\ cb.totalFailures = nOpFailed
  /\ (last.op = "execute" /\ ~last.fnInvoked) =>
       /\ cb.failureCount = last.pre.failureCount
       /\ cb.totalFailures = last.pre.totalFailures
       /\ cb.lastFailureTime = last.pre.lastFailureTime

C8_Witness ==
  /\ last.op = "execute" /\ ~last.fnInvoked
  /\ nExecute >= 3 /\ nOpFailed >= 1
  /\ cb.totalRequests = nExecute

\* C9: reset() leaves the breaker closed with failureCount = 0,
\* successCount = 0 and lastFailureTime undefined, keeps totalRequests and
\* totalFailures, and the execute() that follows it runs the operation.
C9_ResetState ==
  last.op = "reset" =>
    /\ cb.state = "closed"
    /\ cb.failureCount = 0
    /\ cb.successCount = 0
    /\ cb.lastFailureTime = NoTime
    /\ cb.totalRequests = last.pre.totalRequests
    /\ cb.totalFailures = last.pre.totalFailures

C9_NextAdmitted ==
  (last.op = "reset" /\ last'.op = "execute") => last'.fnInvoked

C9_Reset == []C9_ResetState /\ [][C9_NextAdmitted]_vars

C9_Witness ==
  /\ last.op = "reset" /\ last.pre.state = "open"
  /\ last.pre.totalFailures >= 1 /\ cb.state = "closed"

\* recorded failures opened the breaker and less than resetTimeout has passed
\* at time t since they did
OpenedAndWaiting(t) ==
  /\ openedAt # NoTime
  /\ t - openedAt[1] < config.resetTimeout

\* C24: with the execute() calls of several Jobs interleaved on one breaker,
\* once recorded failures have opened it, every execute() begun before
\* resetTimeout has passed is refused, with the breaker's error or with the
\* caller's fallback, and the service is not invoked, whatever the calls
\* still in flight do.
C24_SharedBreakerRejects ==
  (last.op = "execute" /\ OpenedAndWaiting(last.at)) =>
    /\ ~last.fnInvoked
    /\ last.result = IF last.fb THEN "fallback result" ELSE "circuit open error"
    /\ last.fallbackInvoked = last.fb

\* the breaker was opened by the failures of two calls, a third call admitted
\* before it opened is still in flight, and an execute() was refused
C24_Witness ==
  /\ last.op = "execute" /\ OpenedAndWaiting(last.at)
  /\ config.failureThreshold = 2 /\ nOpFailed >= 2
  /\ InFlightCount >= 1
  /\ ~last.fnInvoked

\* C33: when an admitted operation fails, execute(fn, fallback) records the
\* failure and rethrows fn's own error, and the fallback is not invoked; the
\* fallback is invoked only in a call refused because the breaker is open.
C33_FallbackOnlyWhenOpen ==
  /\ last.op = "failure" =>
       /\ last.result = "fn error"
       /\ ~last.fallbackInvoked
       /\ cb.failureCount = last.pre.failureCount + 1
       /\ cb.totalFailures = last.pre.totalFailures + 1
       /\ cb.lastFailureTime = <<last.at>>
  /\ last.fallbackInvoked =>
       /\ last.op = "execute" /\ last.fb /\ ~last.fnInvoked
       /\ last.pre.state = "open" /\ cb.state = "open"

\* a half-open probe of a caller that supplied a fallback failed
C33_Witness ==
  /\ last.op = "failure" /\ last.fb
  /\ last.pre.state = "half-open"
  /\ last.result = "fn error" /\ ~last.fallbackInvoked
  /\ cb.state = "open"

\* the state changes the breaker makes by itself
AllowedTransitions ==
  { <<"closed", "open">>, <<"open", "half-open">>,
    <<"half-open", "closed">>, <<"half-open", "open">> }

\* a step other than reset() changes the state only along one of the four
\* transitions, and a success reported while the breaker is open leaves it open
C34_Step ==
  last'.op # "reset" =>
    /\ cb'.state # cb.state => <<cb.state, cb'.state>> \in AllowedTransitions
    /\ (last'.op = "success" /\ cb.state = "open" /\ last' # last)
          => cb'.state = "open"

\* C34: under any interleaving of concurrent execute() calls and without
\* reset(), the state changes only along closed->open, open->half-open,
\* half-open->closed and half-open->open, never open->closed nor
\* closed->half-open, and a success reported while open leaves it open.
C34_Transitions == [][C34_Step]_vars

\* a call admitted before the breaker opened has succeeded while it was open
C34_Witness ==
  /\ last.op = "success" /\ last.pre.state = "open"
  /\ cb.state = "open"
  /\ cb.failureCount = 0

\* C35: with calls in flight, the success of a call that was admitted while
\* the breaker was still closed is not counted as a half-open probe: reported
\* while the breaker is half-open it leaves successCount and the state as they
\* are, so that only successes of calls admitted half-open close the breaker.
C35_ProbesOnly ==
  [][\A k \in CallKinds :
       ( /\ k.adm = "closed"
         /\ inflight'[k] = inflight[k] - 1
         /\ last'.op = "success"
         /\ cb.state = "half-open" )
       => (cb'.successCount = cb.successCount /\ cb'.state = "half-open")]_vars

\* C40: in every reachable state, under any interleaving of execute(),
\* isAllowed() and reset(): a closed breaker has failureCount below
\* failureThreshold, successCount is 0 unless the breaker is half-open, and
\* successCount is always below halfOpenRequests.
C40_Counters ==
  /\ config.failureThreshold >= 1 /\ config.halfOpenRequests >= 1
  /\ cb.state = "closed" => cb.failureCount < config.failureThreshold
  /\ cb.state # "half-open" => cb.successCount = 0
  /\ cb.successCount < config.halfOpenRequests

\* a half-open breaker that needs two probes has counted one, after calls
\* were refused and the operation failed twice
C40_Witness ==
  /\ cb.state = "half-open" /\ cb.successCount = 1
  /\ config.halfOpenRequests = 2 /\ config.failureThreshold = 2
  /\ cb.totalFailures >= 2
  /\ InFlightCount >= 1

(* -------------------- the two module-level breakers --------------------- *)

\* execute() calls made on each of the two breakers
MaxCircuitCalls == 4

\* clock readings, ClockStep milliseconds apart
MaxClock == 3

ClockStep == 30000

\* export const replicateCircuit = new CircuitBreaker({ name: 'replicate', ... })
replicateCircuit ==
  [failureThreshold |-> 2, resetTimeout |-> 60000, halfOpenRequests |-> 1]

\* variant: the analysis breaker given the alignment breaker's threshold
geminiCircuit_two ==
  [failureThreshold |-> 2, resetTimeout |-> 30000, halfOpenRequests |-> 2]

\* export const geminiCircuit = new CircuitBreaker({ name: 'gemini', ... })
geminiCircuit ==
  [failureThreshold |-> 3, resetTimeout |-> 30000, halfOpenRequests |-> 2]

CircuitNames == {"replicate", "gemini"}

configOf(n) == IF n = "replicate" THEN replicateCircuit ELSE geminiCircuit

\* the two instances, the clock, and the history of the calls: the breaker
\* last called, and per breaker its run of consecutive failures
NewCircuits ==
  [b |-> [n \in CircuitNames |-> NewBreaker],
   clock |-> 1,
   on |-> "none",
   run |-> [n \in CircuitNames |-> NoRun]]

CircuitsInit == circuits = NewCircuits

\* <name>Circuit.execute(fn) is let through and fn resolves
CircuitExecuteOk(n) ==
  LET r == executeEntry(circuits.b[n], configOf(n), circuits.clock * ClockStep) IN
  /\ circuits.b[n].totalRequests < MaxCircuitCalls
  /\ r.allowed
  /\ circuits' = [circuits EXCEPT
                    !.b[n] = onSuccess(r.b, configOf(n)),
                    !.on = n,
                    !.run[n] = NoRun]
  /\ UNCHANGED <<cbVars, jobVars, viewVars, playerVars, switchVars, appVars,
                 readerVars>>

\* <name>Circuit.execute(fn) is let through and fn rejects
CircuitExecuteFails(n) ==
  LET r == executeEntry(circuits.b[n], configOf(n), circuits.clock * ClockStep) IN
  /\ circuits.b[n].totalRequests < MaxCircuitCalls
  /\ r.allowed
  /\ circuits' = [circuits EXCEPT
                    !.b[n] = onFailure(r.b, configOf(n), circuits.clock * ClockStep),
                    !.on = n,
                    !.run[n] = [n |-> @.n + 1,
                                from |-> IF @.n = 0 THEN circuits.b[n].state
                                                    ELSE @.from]]
  /\ UNCHANGED <<cbVars, jobVars, viewVars, playerVars, switchVars, appVars,
                 readerVars>>

\* <name>Circuit.execute(fn) is refused
CircuitExecuteRefused(n) ==
  LET r == executeEntry(circuits.b[n], configOf(n), circuits.clock * ClockStep) IN
  /\ circuits.b[n].totalRequests < MaxCircuitCalls
  /\ ~r.allowed
  /\ circuits' = [circuits EXCEPT !.b[n] = r.b, !.on = n]
  /\ UNCHANGED <<cbVars, jobVars, viewVars, playerVars, switchVars, appVars,
                 readerVars>>

\* <name>Circuit.reset()
CircuitReset(n) ==
  /\ circuits.b[n].state # "closed"
  /\ circuits' = [circuits EXCEPT
                    !.b[n] = reset(@), !.on = n, !.run[n] = NoRun]
  /\ UNCHANGED <<cbVars, jobVars, viewVars, playerVars, switchVars, appVars,
                 readerVars>>

\* the clock advances
CircuitTick ==
  /\ circuits.clock < MaxClock
  /\ circuits' = [circuits EXCEPT !.clock = @ + 1, !.on = "none"]
  /\ UNCHANGED <<cbVars, jobVars, viewVars, playerVars, switchVars, appVars,
                 readerVars>>

CircuitsNext ==
  \/ \E n \in CircuitNames : CircuitExecuteOk(n)
  \/ \E n \in CircuitNames : CircuitExecuteFails(n)
  \/ \E n \in CircuitNames : CircuitExecuteRefused(n)
  \/ \E n \in CircuitNames : CircuitReset(n)
  \/ CircuitTick

\* a call on one breaker leaves the fields of the other as they were
C25_OtherUntouched ==
  \A n \in CircuitNames :
    circuits'.on = n =>
      \A m \in CircuitNames \ {n} : circuits'.b[m] = circuits.b[m]

\* in a run of consecutive failures that began on a closed breaker, the
\* alignment breaker is open after two and the analysis breaker is still
\* closed after two and open after three
C25_Thresholds ==
  /\ geminiCircuit.failureThreshold > replicateCircuit.failureThreshold
  /\ (circuits.run["replicate"] = [n |-> 2, from |-> "closed"]
        => circuits.b["replicate"].state = "open")
  /\ (circuits.run["gemini"] = [n |-> 2, from |-> "closed"]
        => circuits.b["gemini"].state = "closed")
  /\ (circuits.run["gemini"] = [n |-> 3, from |-> "closed"]
        => circuits.b["gemini"].state = "open")

\* C25: the alignment breaker and the analysis breaker keep independent
\* state, no call on one changes the state or the counters of the other, and
\* two consecutive failures open the alignment breaker (threshold 2) but leave
\* the analysis breaker (threshold 3) closed.
C25_IndependentBreakers == []C25_Thresholds /\ [][C25_OtherUntouched]_vars

\* both breakers have failed twice in a row from closed: the alignment
\* breaker is open, the analysis breaker closed with its two failures counted
C25_Witness ==
  /\ circuits.run["replicate"] = [n |-> 2, from |-> "closed"]
  /\ circuits.run["gemini"] = [n |-> 2, from |-> "closed"]
  /\ circuits.b["replicate"].state = "open"
  /\ circuits.b["gemini"].state = "closed"
  /\ circuits.b["gemini"].failureCount = 2

(* ---------------------- transcribeAudio: the data ---------------------- *)

\* seconds are carried as whole microseconds, so that Math.floor(x * 1000)
\* is a division that can round
MicrosPerMs == 1000

\* variant: the seconds are floored without the conversion to milliseconds
floorMs_seconds(us) == us \div (MicrosPerMs * 1000)

\* Math.floor(seg.start * 1000), Math.floor(seg.end * 1000)
floorMs(us) == us \div MicrosPerMs

\* texts are sequences of characters
UpperChars ==
  <<"A", "B", "C", "D", "E", "F", "G", "H", "I", "J", "K", "L", "M",
    "N", "O", "P", "Q", "R", "S", "T", "U", "V", "W", "X", "Y", "Z">>

LowerChars ==
  <<"a", "b", "c", "d", "e", "f", "g", "h", "i", "j", "k", "l", "m",
    "n", "o", "p", "q", "r", "s", "t", "u", "v", "w", "x", "y", "z">>

lowerChar(c) ==
  IF \E i \in 1..Len(UpperChars) : UpperChars[i] = c
    THEN LowerChars[CHOOSE i \in 1..Len(UpperChars) : UpperChars[i] = c]
    ELSE c

\* String.prototype.toLowerCase()
toLowerCase(str) == [i \in 1..Len(str) |-> lowerChar(str[i])]

\* the speaker labels the alignment service can send, in the order that
\* Array.prototype.sort() puts them in
LabelsSorted == <<"A", "B", "SPEAKER_00", "SPEAKER_01">>

\* seg.speaker is optional: "" stands for a missing (falsy) label
NoLabel == ""

\* the labels of ws in the order in which a Set keeps them: first insertion
RECURSIVE firstSeen(_, _)
firstSeen(ws, acc) ==
  IF ws = <<>> THEN acc
  ELSE LET l == Head(ws).speaker
       IN firstSeen(Tail(ws),
                    IF l = NoLabel \/ \E i \in 1..Len(acc) : acc[i] = l
                      THEN acc ELSE Append(acc, l))

\* buildSegmentsFromWhisperX with index counted from 1
buildSegmentsFromWhisperX_oneBased(ws) ==
  LET speakerSet == {ws[i].speaker : i \in 1..Len(ws)} \ {NoLabel}
      sorted == SelectSeq(LabelsSorted, LAMBDA l : l \in speakerSet)
      named == [i \in 1..Len(sorted) |->
                  [id |-> sorted[i], name |-> "Speaker " \o ToString(i)]]
      speakers == IF Len(named) = 0
                    THEN <<[id |-> "SPEAKER_00", name |-> "Speaker 1"]>>
                    ELSE named
      segments == [i \in 1..Len(ws) |->
                     [text |-> ws[i].text,
                      startMs |-> floorMs(ws[i].start),
                      endMs |-> floorMs(ws[i].end),
                      speakerId |-> IF ws[i].speaker # NoLabel
                                      THEN ws[i].speaker ELSE "SPEAKER_00",
                      index |-> i]]
  IN [segments |-> segments, speakers |-> speakers]

\* buildSegmentsFromWhisperX without the sort(): the Set's insertion order
buildSegmentsFromWhisperX_firstSeen(ws) ==
  LET sorted == firstSeen(ws, <<>>)
      named == [i \in 1..Len(sorted) |->
                  [id |-> sorted[i], name |-> "Speaker " \o ToString(i)]]
      speakers == IF Len(named) = 0
                    THEN <<[id |-> "SPEAKER_00", name |-> "Speaker 1"]>>
                    ELSE named
      segments == [i \in 1..Len(ws) |->
                     [text |-> ws[i].text,
                      startMs |-> floorMs(ws[i].start),
                      endMs |-> floorMs(ws[i].end),
                      speakerId |-> IF ws[i].speaker # NoLabel
                                      THEN ws[i].speaker ELSE "SPEAKER_00",
                      index |-> i - 1]]
  IN [segments |-> segments, speakers |-> speakers]

\* buildSegmentsFromWhisperX(whisperxSegments)
buildSegmentsFromWhisperX(ws) ==
  LET speakerSet == {ws[i].speaker : i \in 1..Len(ws)} \ {NoLabel}
      sorted == SelectSeq(LabelsSorted, LAMBDA l : l \in speakerSet)
      named == [i \in 1..Len(sorted) |->
                  [id |-> sorted[i], name |-> "Speaker " \o ToString(i)]]
      speakers == IF Len(named) = 0
                    THEN <<[id |-> "SPEAKER_00", name |-> "Speaker 1"]>>
                    ELSE named
      segments == [i \in 1..Len(ws) |->
                     [text |-> ws[i].text,
                      startMs |-> floorMs(ws[i].start),
                      endMs |-> floorMs(ws[i].end),
                      speakerId |-> IF ws[i].speaker # NoLabel
                                      THEN ws[i].speaker ELSE "SPEAKER_00",
                      index |-> i - 1]]
  IN [segments |-> segments, speakers |-> speakers]

\* analysis.speakerNotes.find(n => n.speakerId === s.id): <<>> or <<note>>
findNote(notes, id) ==
  LET hits == SelectSeq(notes, LAMBDA n : n.speakerId = id)
  IN IF Len(hits) = 0 THEN <<>> ELSE <<hits[1]>>

\* variant: an inferred name is used alone and the notes are not used
displayNameOf_nameAlone(s, notes) ==
  LET found == findNote(notes, s.id) IN
  IF found = <<>> THEN s.name
  ELSE LET n == found[1] IN
    IF n.inferredName # "" THEN n.inferredName
    ELSE IF n.role # "" THEN s.name \o " (" \o n.role \o ")"
    ELSE s.name

\* the displayName the merge gives a speaker; an absent or empty hint is ""
displayNameOf(s, notes) ==
  LET found == findNote(notes, s.id) IN
  IF found = <<>> THEN s.name
  ELSE LET n == found[1] IN
    IF n.inferredName # "" THEN
      IF n.role # "" THEN n.inferredName \o " (" \o n.role \o ")"
      ELSE n.inferredName
    ELSE IF n.role # "" THEN s.name \o " (" \o n.role \o ")"
    ELSE IF n.notes # "" THEN s.name \o " (" \o n.notes \o ")"
    ELSE s.name

\* the characters that \b counts as word characters
WordChars ==
  {UpperChars[i] : i \in 1..Len(UpperChars)} \cup
  {LowerChars[i] : i \in 1..Len(LowerChars)} \cup
  {"0", "1", "2", "3", "4", "5", "6", "7", "8", "9", "_"}

\* \b at offset i of text (between the i-th and the (i+1)-th character)
isBoundary(text, i) ==
  LET before == i >= 1 /\ text[i] \in WordChars
      after == i < Len(text) /\ text[i + 1] \in WordChars
  IN before # after

\* the escaped pattern p read as a literal at offset i, flag i (ignore case)
literalAt(text, p, i) ==
  /\ i + Len(p) <= Len(text)
  /\ \A k \in 1..Len(p) : lowerChar(text[i + k]) = lowerChar(p[k])

\* /\b(p1|p2|...)\b/ tried at offset i: the length of the match of the first
\* alternative that also reaches a \b, or -1
matchLenAt(text, pats, i) ==
  LET ok == {j \in 1..Len(pats) :
               literalAt(text, pats[j], i) /\ isBoundary(text, i + Len(pats[j]))}
  IN IF ~isBoundary(text, i) \/ ok = {} THEN -1
     ELSE Len(pats[CHOOSE j \in ok : \A k \in ok : j <= k])

\* regex.exec(text) with lastIndex = from: <<>> for null, else <<match>>
execFrom(text, pats, from) ==
  LET hits == {i \in from..Len(text) : matchLenAt(text, pats, i) >= 0}
  IN IF hits = {} THEN <<>>
     ELSE LET i == CHOOSE j \in hits : \A k \in hits : j <= k
          IN <<[index |-> i, len |-> matchLenAt(text, pats, i)]>>

\* [term.display, ...term.aliases]
patternsOf(term) == <<term.display>> \o term.aliases

\* while ((match = regex.exec(seg.text)) !== null) for one segment and term:
\* the matches pushed, and whether the loop repeats one match for ever (an
\* empty match leaves lastIndex where it was)
RECURSIVE execLoop(_, _, _)
execLoop(text, pats, from) ==
  LET m == execFrom(text, pats, from) IN
  IF m = <<>> THEN [matches |-> <<>>, hangs |-> FALSE]
  ELSE IF m[1].len = 0 THEN [matches |-> <<m[1]>>, hangs |-> TRUE]
  ELSE LET rest == execLoop(text, pats, m[1].index + m[1].len)
       IN [matches |-> <<m[1]>> \o rest.matches, hangs |-> rest.hangs]

\* the k-th pass of segments.forEach(seg => terms.forEach(term => ...))
pairAt(segments, terms, k) ==
  [seg |-> segments[((k - 1) \div Len(terms)) + 1],
   term |-> terms[((k - 1) % Len(terms)) + 1]]

\* the while loop of every pass, had each pass been reached
loopResults(segments, terms) ==
  [k \in 1..(Len(segments) * Len(terms)) |->
     execLoop(pairAt(segments, terms, k).seg.text,
              patternsOf(pairAt(segments, terms, k).term), 0)]

\* pushed with endChar one short of the end of the match
pushed_shortEnd(pass, matches) ==
  [k \in 1..Len(matches) |->
     [termId |-> pass.term.termId, segmentId |-> pass.seg.segmentId,
      startChar |-> matches[k].index,
      endChar |-> matches[k].index + matches[k].len - 1]]

\* termOccurrences.push({...}) for the matches of one pass
pushed(pass, matches) ==
  [k \in 1..Len(matches) |->
     [termId |-> pass.term.termId, segmentId |-> pass.seg.segmentId,
      startChar |-> matches[k].index,
      endChar |-> matches[k].index + matches[k].len]]

RECURSIVE Flatten(_)
Flatten(ss) == IF ss = <<>> THEN <<>> ELSE Head(ss) \o Flatten(Tail(ss))

\* the passes run in order up to the first one whose loop never ends
scanResults(segments, terms, rs) ==
  LET hung == {k \in 1..Len(rs) : rs[k].hangs}
      stop == IF hung = {} THEN Len(rs)
              ELSE CHOOSE k \in hung : \A j \in hung : k <= j
  IN [occs |-> Flatten([k \in 1..stop |->
                          pushed(pairAt(segments, terms, k), rs[k].matches)]),
      hangs |-> hung # {}]

\* the term-occurrence computation of the merge
occurrenceScan(segments, terms) ==
  scanResults(segments, terms, loopResults(segments, terms))

\* occurrenceId: `occ_${occCount++}`
numberOccurrences(occs) ==
  [k \in 1..Len(occs) |->
     [occurrenceId |-> "occ_" \o ToString(k - 1), termId |-> occs[k].termId,
      segmentId |-> occs[k].segmentId, startChar |-> occs[k].startChar,
      endChar |-> occs[k].endChar]]

\* terms[t.id] = {...}: a repeated id overwrites the entry in place
RECURSIVE putTerms(_, _)
putTerms(acc, ts) ==
  IF ts = <<>> THEN acc
  ELSE LET t == Head(ts)
           term == [termId |-> t.id, key |-> toLowerCase(t.term),
                    display |-> t.term, definition |-> t.definition,
                    aliases |-> t.aliases]
           at == {i \in 1..Len(acc) : acc[i].termId = t.id}
       IN putTerms(IF at = {} THEN Append(acc, term)
                   ELSE [acc EXCEPT ![CHOOSE i \in at : TRUE] = term],
                   Tail(ts))

\* mergeWhisperXAndGeminiData(whisperxData, analysis, conversationId, userId)
mergeWhisperXAndGeminiData(whisperxData, a) ==
  LET terms == putTerms(<<>>, a.terms)
      speakers == [i \in 1..Len(whisperxData.speakers) |->
                     [speakerId |-> whisperxData.speakers[i].id,
                      displayName |-> displayNameOf(whisperxData.speakers[i],
                                                    a.speakerNotes),
                      colorIndex |-> i - 1]]
      segments == [i \in 1..Len(whisperxData.segments) |->
                     [segmentId |-> "seg_" \o ToString(i - 1),
                      index |-> i - 1,
                      speakerId |-> whisperxData.segments[i].speakerId,
                      startMs |-> whisperxData.segments[i].startMs,
                      endMs |-> whisperxData.segments[i].endMs,
                      text |-> whisperxData.segments[i].text]]
      topics == [i \in 1..Len(a.topics) |->
                   [topicId |-> "top_" \o ToString(i - 1),
                    title |-> a.topics[i].title,
                    startIndex |-> a.topics[i].startSegmentIndex,
                    endIndex |-> a.topics[i].endSegmentIndex,
                    type |-> a.topics[i].type]]
      people == [i \in 1..Len(a.people) |->
                   [personId |-> "p_" \o ToString(i - 1),
                    name |-> a.people[i].name,
                    affiliation |-> a.people[i].affiliation]]
  IN [title |-> a.title,
      speakers |-> speakers,
      segments |-> segments,
      terms |-> terms,
      termOccurrences |->
        numberOccurrences(occurrenceScan(segments, terms).occs),
      topics |-> topics,
      people |-> people,
      durationMs |-> IF Len(segments) = 0 THEN 0
                     ELSE segments[Len(segments)].endMs]

\* the merge throws a TypeError on analysis.terms.forEach / analysis.topics.map
\* when the parsed JSON lacks the array
mergeThrows(a) == a.shape # "ok"

\* the term-occurrence loop of the merge never ends
mergeHangs(whisperxData, a) ==
  occurrenceScan(mergeWhisperXAndGeminiData(whisperxData, a).segments,
                 putTerms(<<>>, a.terms)).hangs

\* error instanceof Error ? error.message : 'Unknown error'
errorMessageOf(error) ==
  IF error.isError THEN error.message ELSE "Unknown error"

\* ProgressManager: a progress write that fails is logged and not raised,
\* the marker keeps its value
progressWrite(marker, step, ok) == IF ok THEN step ELSE marker

(* --------------------- transcribeAudio: the inputs ---------------------- *)

HelloThere == <<"H", "e", "l", "l", "o", " ", "t", "h", "e", "r", "e">>
HiBack == <<"H", "i", " ", "b", "a", "c", "k">>
HiThereHi == <<"h", "i", " ", "t", "h", "e", "r", "e", ",", " ", "H", "I">>

\* event.data.name split at '/', and event.data.contentType ("" is undefined)
Events ==
  { [path |-> <<"audio", "u1", "c1.mp3">>, contentType |-> "audio/mpeg"],
    [path |-> <<"audio", "u1", "c1.mp3">>, contentType |-> "video/mp4"],
    [path |-> <<"audio", "u1", "c1.mp3">>, contentType |-> ""],
    [path |-> <<"images", "u1", "c1.png">>, contentType |-> "audio/mpeg"],
    [path |-> <<"audio", "c1.mp3">>, contentType |-> "audio/mpeg"],
    [path |-> <<"audio", "u1", "old", "c1.mp3">>, contentType |-> "audio/mpeg"] }

\* whisperxResult.segments of a successful alignment
AlignmentOutputs ==
  { <<>>,
    <<[start |-> 0, end |-> 5000000, text |-> HelloThere, speaker |-> "A"],
      [start |-> 5000000, end |-> 9000000, text |-> HiBack, speaker |-> "B"]>>,
    <<[start |-> 1500, end |-> 2000999, text |-> HiBack, speaker |-> "B"],
      [start |-> 2000999, end |-> 4000500, text |-> HelloThere, speaker |-> "A"]>>,
    <<[start |-> 0, end |-> 3000000, text |-> HelloThere, speaker |-> NoLabel]>>,
    <<[start |-> 0, end |-> 2000000, text |-> HiBack, speaker |-> "SPEAKER_01"],
      [start |-> 2000000, end |-> 4000000, text |-> HelloThere, speaker |-> NoLabel]>>,
    <<[start |-> 0, end |-> 1000000, text |-> HiThereHi, speaker |-> "B"],
      [start |-> 1000000, end |-> 2000000, text |-> HelloThere, speaker |-> "A"],
      [start |-> 2000000, end |-> 3000000, text |-> HiBack, speaker |-> "B"]>> }

\* what the thrown value of a failed await can be
Thrown(stage) ==
  { [isError |-> TRUE, message |-> stage \o " error"],
    [isError |-> FALSE, message |-> ""] }

\* responses of the analysis service that parse as JSON; shape tells whether
\* the parsed value has the arrays of a GeminiAnalysis
AnalysisResults ==
  { [title |-> "Greeting", shape |-> "ok",
     topics |-> <<[title |-> "Intro", startSegmentIndex |-> 0,
                   endSegmentIndex |-> 1, type |-> "main"]>>,
     terms |-> <<>>, people |-> <<>>, speakerNotes |-> <<>>],
    [title |-> "Talk", shape |-> "ok",
     topics |-> <<[title |-> "Intro", startSegmentIndex |-> 0,
                   endSegmentIndex |-> 0, type |-> "main"],
                  [title |-> "Aside", startSegmentIndex |-> 1,
                   endSegmentIndex |-> 1, type |-> "tangent"]>>,
     terms |-> <<[id |-> "t1", term |-> <<"H", "i">>, definition |-> "a greeting",
                  aliases |-> <<>>]>>,
     people |-> <<[name |-> "Ann", affiliation |-> "Acme"]>>,
     speakerNotes |-> <<[speakerId |-> "A", inferredName |-> "John",
                         role |-> "", notes |-> ""]>>],
    [title |-> "Words", shape |-> "ok",
     topics |-> <<>>,
     terms |-> <<[id |-> "t1", term |-> <<"t", "h", "e", "r", "e">>,
                  definition |-> "a place",
                  aliases |-> << <<"h", "e", "l", "l", "o">>, <<"h", "e">> >>],
                 [id |-> "t2", term |-> <<"b", "a", "c", "k">>,
                  definition |-> "a return", aliases |-> <<>>]>>,
     people |-> <<>>, speakerNotes |-> <<>>],
    [title |-> "Blank", shape |-> "ok",
     topics |-> <<>>,
     terms |-> <<[id |-> "t1", term |-> <<"H", "i">>, definition |-> "a greeting",
                  aliases |-> << <<>> >>]>>,
     people |-> <<>>, speakerNotes |-> <<>>],
    [title |-> "Partial", shape |-> "no terms",
     topics |-> <<>>, terms |-> <<>>, people |-> <<>>, speakerNotes |-> <<>>],
    [title |-> "Panel", shape |-> "ok",
     topics |-> <<>>, terms |-> <<>>, people |-> <<>>,
     speakerNotes |-> <<[speakerId |-> "A", inferredName |-> "John",
                         role |-> "host", notes |-> ""],
                        [speakerId |-> "B", inferredName |-> "",
                         role |-> "", notes |-> "works at Acme"]>>],
    [title |-> "Roles", shape |-> "ok",
     topics |-> <<>>, terms |-> <<>>, people |-> <<>>,
     speakerNotes |-> <<[speakerId |-> "A", inferredName |-> "",
                         role |-> "guest", notes |-> "asks questions"],
                        [speakerId |-> "B", inferredName |-> "",
                         role |-> "", notes |-> ""]>>] }

(* ------------------ transcribeAudio: the state machine ------------------ *)

\* the document the client creates with the upload
NewDoc ==
  [status |-> "processing", alignmentStatus |-> "pending",
   processingError |-> <<>>, audioStoragePath |-> <<>>,
   title |-> "", speakers |-> <<>>, segments |-> <<>>, terms |-> <<>>,
   termOccurrences |-> <<>>, topics |-> <<>>, people |-> <<>>, durationMs |-> 0]

NoEvent == [path |-> <<>>, contentType |-> ""]

NoBuilt == [segments |-> <<>>, speakers |-> <<>>]

NoAnalysis ==
  [title |-> "", shape |-> "ok", topics |-> <<>>, terms |-> <<>>,
   people |-> <<>>, speakerNotes |-> <<>>]

NoMerged ==
  [title |-> "", speakers |-> <<>>, segments |-> <<>>, terms |-> <<>>,
   termOccurrences |-> <<>>, topics |-> <<>>, people |-> <<>>, durationMs |-> 0]

JobInit ==
  /\ event = NoEvent
  /\ pc = "idle"
  /\ doc = NewDoc
  /\ progress = "none"
  /\ wx = <<>>
  /\ built = NoBuilt
  /\ analysis = NoAnalysis
  /\ merged = NoMerged
  /\ errorMessage = ""
  /\ outcome = [alignment |-> "not called", analysis |-> "not called",
               given |-> <<>>]
  /\ faults = {}

\* the filter without the content type test
isAudioUpload_pathOnly(e) ==
  Len(e.path) >= 2 /\ e.path[1] = "audio"

\* filePath.startsWith('audio/') && contentType?.startsWith('audio/')
isAudioUpload(e) ==
  /\ Len(e.path) >= 2 /\ e.path[1] = "audio"
  /\ e.contentType \in {"audio/mpeg", "audio/wav"}

\* the try block is left for the catch block with the thrown value
Catch(stage, error) ==
  /\ errorMessage' = errorMessageOf(error)
  /\ pc' = "setFailed"

\* the handler is called and runs to its first await or to a return
Trigger ==
  /\ pc = "idle"
  /\ \E e \in Events :
       /\ event' = e
       /\ pc' = IF ~isAudioUpload(e) \/ Len(e.path) # 3
                  THEN "skipped" ELSE "markProcessing"
  /\ UNCHANGED <<doc, progress, wx, built, analysis, merged, errorMessage,
                 outcome, faults>>
  /\ UNCHANGED <<cbVars, viewVars, playerVars, switchVars, circuitVars, appVars, readerVars>>

\* await update({status: 'processing'})
MarkProcessing ==
  /\ pc = "markProcessing"
  /\ \/ /\ doc' = [doc EXCEPT !.status = "processing"]
        /\ pc' = "setStepTranscribing"
        /\ UNCHANGED <<errorMessage, faults>>
     \/ /\ \E x \in Thrown("status write") : Catch("status write", x)
        /\ faults' = faults \cup {"status write"}
        /\ UNCHANGED doc
  /\ UNCHANGED <<event, progress, wx, built, analysis, merged, outcome>>
  /\ UNCHANGED <<cbVars, viewVars, playerVars, switchVars, circuitVars, appVars, readerVars>>

\* await progressManager.setStep(ProcessingStep.TRANSCRIBING)
SetStepTranscribing ==
  /\ pc = "setStepTranscribing"
  /\ \E ok \in BOOLEAN :
       /\ progress' = progressWrite(progress, "transcribing", ok)
       /\ faults' = IF ok THEN faults ELSE faults \cup {"progress write"}
  /\ pc' = "download"
  /\ UNCHANGED <<event, doc, wx, built, analysis, merged, errorMessage, outcome>>
  /\ UNCHANGED <<cbVars, viewVars, playerVars, switchVars, circuitVars, appVars, readerVars>>

\* await file.download()
Download ==
  /\ pc = "download"
  /\ \/ /\ pc' = "align"
        /\ UNCHANGED <<errorMessage, faults>>
     \/ /\ \E x \in Thrown("download") : Catch("download", x)
        /\ faults' = faults \cup {"download"}
  /\ UNCHANGED <<event, doc, progress, wx, built, analysis, merged, outcome>>
  /\ UNCHANGED <<cbVars, viewVars, playerVars, switchVars, circuitVars, appVars, readerVars>>

\* Align without the throw on status 'error': the handler goes on with no
\* segments
Align_continues ==
  /\ pc = "align"
  /\ \/ \E ws \in AlignmentOutputs :
          /\ wx' = ws
          /\ built' = buildSegmentsFromWhisperX(ws)
          /\ outcome' = [outcome EXCEPT !.alignment = "ok"]
          /\ pc' = "setStepAnalyzing"
          /\ UNCHANGED errorMessage
     \/ /\ pc' = "setStepAnalyzing"
        /\ outcome' = [outcome EXCEPT !.alignment = "error status"]
        /\ UNCHANGED <<wx, built, errorMessage>>
     \/ /\ \E x \in Thrown("alignment") : Catch("alignment", x)
        /\ outcome' = [outcome EXCEPT !.alignment = "threw"]
        /\ UNCHANGED <<wx, built>>
  /\ UNCHANGED <<event, doc, progress, analysis, merged, faults>>
  /\ UNCHANGED <<cbVars, viewVars, playerVars, switchVars, circuitVars, appVars, readerVars>>

\* await transcribeWithWhisperX(...), the status test and the segment build
Align ==
  /\ pc = "align"
  /\ \/ \E ws \in AlignmentOutputs :
          /\ wx' = ws
          /\ built' = buildSegmentsFromWhisperX(ws)
          /\ outcome' = [outcome EXCEPT !.alignment = "ok"]
          /\ pc' = "setStepAnalyzing"
          /\ UNCHANGED errorMessage
     \/ /\ errorMessage' = "WhisperX failed: " \o "alignment error"
        /\ pc' = "setFailed"
        /\ outcome' = [outcome EXCEPT !.alignment = "error status"]
        /\ UNCHANGED <<wx, built>>
     \/ /\ \E x \in Thrown("alignment") : Catch("alignment", x)
        /\ outcome' = [outcome EXCEPT !.alignment = "threw"]
        /\ UNCHANGED <<wx, built>>
  /\ UNCHANGED <<event, doc, progress, analysis, merged, faults>>
  /\ UNCHANGED <<cbVars, viewVars, playerVars, switchVars, circuitVars, appVars, readerVars>>

\* SetStepAnalyzing with a progress write that raises its failure into the catch
SetStepAnalyzing_throws ==
  /\ pc = "setStepAnalyzing"
  /\ \/ /\ progress' = progressWrite(progress, "analyzing", TRUE)
        /\ pc' = "analyze"
        /\ UNCHANGED <<errorMessage, faults>>
     \/ /\ \E x \in Thrown("progress write") : Catch("progress write", x)
        /\ faults' = faults \cup {"progress write"}
        /\ UNCHANGED progress
  /\ UNCHANGED <<event, doc, wx, built, analysis, merged, outcome>>
  /\ UNCHANGED <<cbVars, viewVars, playerVars, switchVars, circuitVars, appVars, readerVars>>

\* await progressManager.setStep(ProcessingStep.ANALYZING)
SetStepAnalyzing ==
  /\ pc = "setStepAnalyzing"
  /\ \E ok \in BOOLEAN :
       /\ progress' = progressWrite(progress, "analyzing", ok)
       /\ faults' = IF ok THEN faults ELSE faults \cup {"progress write"}
  /\ pc' = "analyze"
  /\ UNCHANGED <<event, doc, wx, built, analysis, merged, errorMessage, outcome>>
  /\ UNCHANGED <<cbVars, viewVars, playerVars, switchVars, circuitVars, appVars, readerVars>>

\* await analyzeTranscriptWithGemini(...): generateContent and JSON.parse
Analyze ==
  /\ pc = "analyze"
  /\ \/ \E a \in AnalysisResults :
          /\ analysis' = a
          /\ outcome' = [outcome EXCEPT !.analysis = "ok", !.given = <<built>>]
          /\ pc' = "setStepFinalizing"
          /\ UNCHANGED errorMessage
     \/ /\ \E x \in Thrown("analysis") : Catch("analysis", x)
        /\ outcome' = [outcome EXCEPT !.analysis = "threw", !.given = <<built>>]
        /\ UNCHANGED analysis
     \/ /\ Catch("analysis", [isError |-> TRUE, message |-> "Unexpected token"])
        /\ outcome' = [outcome EXCEPT !.analysis = "unparsable", !.given = <<built>>]
        /\ UNCHANGED analysis
  /\ UNCHANGED <<event, doc, progress, wx, built, merged, faults>>
  /\ UNCHANGED <<cbVars, viewVars, playerVars, switchVars, circuitVars, appVars, readerVars>>

\* await progressManager.setStep(ProcessingStep.FINALIZING) and the merge
SetStepFinalizing ==
  /\ pc = "setStepFinalizing"
  /\ \E ok \in BOOLEAN :
       /\ progress' = progressWrite(progress, "finalizing", ok)
       /\ faults' = IF ok THEN faults ELSE faults \cup {"progress write"}
  /\ \/ /\ mergeThrows(analysis)
        /\ Catch("merge", [isError |-> TRUE, message |-> "Cannot read properties"])
        /\ UNCHANGED merged
     \/ /\ ~mergeThrows(analysis)
        /\ mergeHangs(built, analysis)
        /\ pc' = "merging"
        /\ UNCHANGED <<merged, errorMessage>>
     \/ /\ ~mergeThrows(analysis)
        /\ ~mergeHangs(built, analysis)
        /\ merged' = mergeWhisperXAndGeminiData(built, analysis)
        /\ pc' = "persist"
        /\ UNCHANGED errorMessage
  /\ UNCHANGED <<event, doc, wx, built, analysis, outcome>>
  /\ UNCHANGED <<cbVars, viewVars, playerVars, switchVars, circuitVars, appVars, readerVars>>

\* await update({...processedData, status: 'complete', ...})
Persist ==
  /\ pc = "persist"
  /\ \/ /\ doc' = [doc EXCEPT
                     !.title = merged.title, !.speakers = merged.speakers,
                     !.segments = merged.segments, !.terms = merged.terms,
                     !.termOccurrences = merged.termOccurrences,
                     !.topics = merged.topics, !.people = merged.people,
                     !.durationMs = merged.durationMs,
                     !.status = "complete", !.alignmentStatus = "aligned",
                     !.audioStoragePath = <<event.path>>]
        /\ pc' = "setComplete"
        /\ UNCHANGED <<errorMessage, faults>>
     \/ /\ \E x \in Thrown("persistence") : Catch("persistence", x)
        /\ faults' = faults \cup {"persistence"}
        /\ UNCHANGED doc
  /\ UNCHANGED <<event, progress, wx, built, analysis, merged, outcome>>
  /\ UNCHANGED <<cbVars, viewVars, playerVars, switchVars, circuitVars, appVars, readerVars>>

\* SetComplete with a progress write that raises its failure into the catch
SetComplete_throws ==
  /\ pc = "setComplete"
  /\ \/ /\ progress' = progressWrite(progress, "complete", TRUE)
        /\ pc' = "done"
        /\ UNCHANGED <<errorMessage, faults>>
     \/ /\ \E x \in Thrown("progress write") : Catch("progress write", x)
        /\ faults' = faults \cup {"progress write"}
        /\ UNCHANGED progress
  /\ UNCHANGED <<event, doc, wx, built, analysis, merged, outcome>>
  /\ UNCHANGED <<cbVars, viewVars, playerVars, switchVars, circuitVars, appVars, readerVars>>

\* await progressManager.setComplete()
SetComplete ==
  /\ pc = "setComplete"
  /\ \E ok \in BOOLEAN :
       /\ progress' = progressWrite(progress, "complete", ok)
       /\ faults' = IF ok THEN faults ELSE faults \cup {"progress write"}
  /\ pc' = "done"
  /\ UNCHANGED <<event, doc, wx, built, analysis, merged, errorMessage, outcome>>
  /\ UNCHANGED <<cbVars, viewVars, playerVars, switchVars, circuitVars, appVars, readerVars>>

\* catch: await progressManager.setFailed(errorMessage)
SetFailed ==
  /\ pc = "setFailed"
  /\ \E ok \in BOOLEAN :
       /\ progress' = progressWrite(progress, "failed", ok)
       /\ faults' = IF ok THEN faults ELSE faults \cup {"progress write"}
  /\ pc' = "markFailed"
  /\ UNCHANGED <<event, doc, wx, built, analysis, merged, errorMessage, outcome>>
  /\ UNCHANGED <<cbVars, viewVars, playerVars, switchVars, circuitVars, appVars, readerVars>>

\* MarkFailed with a failure write that also sets alignmentStatus
MarkFailed_fallback ==
  /\ pc = "markFailed"
  /\ \/ /\ doc' = [doc EXCEPT !.status = "failed",
                              !.processingError = <<errorMessage>>,
                              !.alignmentStatus = "fallback"]
        /\ pc' = "done"
        /\ UNCHANGED faults
     \/ /\ pc' = "rejected"
        /\ faults' = faults \cup {"failed-status write"}
        /\ UNCHANGED doc
  /\ UNCHANGED <<event, progress, wx, built, analysis, merged, errorMessage, outcome>>
  /\ UNCHANGED <<cbVars, viewVars, playerVars, switchVars, circuitVars, appVars, readerVars>>

\* catch: await update({status: 'failed', processingError: errorMessage})
MarkFailed ==
  /\ pc = "markFailed"
  /\ \/ /\ doc' = [doc EXCEPT !.status = "failed",
                              !.processingError = <<errorMessage>>]
        /\ pc' = "done"
        /\ UNCHANGED faults
     \/ /\ pc' = "rejected"
        /\ faults' = faults \cup {"failed-status write"}
        /\ UNCHANGED doc
  /\ UNCHANGED <<event, progress, wx, built, analysis, merged, errorMessage, outcome>>
  /\ UNCHANGED <<cbVars, viewVars, playerVars, switchVars, circuitVars, appVars, readerVars>>

JobNext ==
  \/ Trigger
  \/ MarkProcessing
  \/ SetStepTranscribing
  \/ Download
  \/ Align
  \/ SetStepAnalyzing
  \/ Analyze
  \/ SetStepFinalizing
  \/ Persist
  \/ SetComplete
  \/ SetFailed
  \/ MarkFailed

(* --------------------------- Viewer: the code --------------------------- *)

\* loadedmetadata notifications delivered to one audio element
MaxMetadata == 2

\* a JavaScript number that is a duration in ms: finite, NaN or Infinity
Finite(n) == [kind |-> "finite", ms |-> n]
NaN == [kind |-> "NaN", ms |-> 0]
Infinity == [kind |-> "Infinity", ms |-> 0]

\* Number.isFinite(audioDurMs) && audioDurMs !== 0
isFiniteNonZero(dur) == dur.kind = "finite" /\ dur.ms # 0

\* a > b on these numbers (every comparison with NaN is false)
greater(a, b) ==
  CASE a.kind = "NaN" \/ b.kind = "NaN" -> FALSE
    [] a.kind = "Infinity" -> b.kind = "finite"
    [] b.kind = "Infinity" -> FALSE
    [] OTHER -> a.ms > b.ms

\* the thresholds of the drift test: diff > 2000 && (ratio < 0.95 || ratio > 1.05)
DriftFloorMs == 2000
RatioLowPct == 95
RatioHighPct == 105

\* Math.abs(audioDurMs - transcriptDurMs)
absDiff(a, b) == IF a >= b THEN a - b ELSE b - a

\* the drift test with || between the two floors
driftDetected_either(d, p) ==
  \/ absDiff(d, p) > DriftFloorMs
  \/ \/ d * 100 < RatioLowPct * p
     \/ d * 100 > RatioHighPct * p

\* the drift test for a finite audio duration d and a positive transcript
\* duration p, with ratio = d / p
driftDetected(d, p) ==
  /\ absDiff(d, p) > DriftFloorMs
  /\ \/ d * 100 < RatioLowPct * p
     \/ d * 100 > RatioHighPct * p

RECURSIVE gcd(_, _)
gcd(a, b) == IF b = 0 THEN a ELSE gcd(b, a % b)

\* variant: the ratio taken the wrong way round, transcript over audio
scaleMs_inverse(value, d, p) ==
  (value * (p \div gcd(d, p))) \div (d \div gcd(d, p))

\* Math.floor(value * ratio) with ratio = d / p, the quotient taken in lowest
\* terms so that the product stays a 32-bit integer
scaleMs(value, d, p) == (value * (d \div gcd(d, p))) \div (p \div gcd(d, p))

\* variant: only endMs is scaled
scaledSegments_endOnly(segments, d, p) ==
  [i \in 1..Len(segments) |->
     [segments[i] EXCEPT !.endMs = scaleMs(segments[i].endMs, d, p)]]

\* conversation.segments.map(seg => ({...seg, startMs: ..., endMs: ...}))
scaledSegments(segments, d, p) ==
  [i \in 1..Len(segments) |->
     [segments[i] EXCEPT !.startMs = scaleMs(segments[i].startMs, d, p),
                         !.endMs = scaleMs(segments[i].endMs, d, p)]]

\* {...conversation, segments: scaledSegments, durationMs: audioDurMs}
fixedConversation(conversation, d) ==
  LET p == conversation.segments[Len(conversation.segments)].endMs
  IN [conversation EXCEPT !.segments = scaledSegments(conversation.segments, d, p),
                          !.durationMs = d]

\* handleMetadata reaches the rescaling: the guards it evaluates on what it
\* captured (cl) and on audio.duration * 1000 (dur)
rescales(cl, dur) ==
  /\ isFiniteNonZero(dur)
  /\ Len(cl.conversation.segments) > 0
  /\ ~cl.isSyncing
  /\ driftDetected(dur.ms,
                   cl.conversation.segments[Len(cl.conversation.segments)].endMs)

\* handleMetadata with the state setters applied to the React state v
handleMetadata(cl, v, dur) ==
  IF ~isFiniteNonZero(dur) THEN v
  ELSE IF rescales(cl, dur)
    THEN [v EXCEPT !.realDuration = dur, !.isSyncing = TRUE,
                   !.conversation = fixedConversation(cl.conversation, dur.ms)]
    ELSE [v EXCEPT !.realDuration = dur]

(* -------------------------- Viewer: the inputs -------------------------- *)

\* the conversations a viewer is opened on (initialData); audioUrl is set
InitialConversations ==
  { [conversationId |-> "c1", alignmentStatus |-> st, durationMs |-> 100000,
     segments |->
       <<[segmentId |-> "seg_0", index |-> 0, speakerId |-> "A",
          text |-> HelloThere, startMs |-> 0, endMs |-> 40000],
         [segmentId |-> "seg_1", index |-> 1, speakerId |-> "B",
          text |-> HiBack, startMs |-> 40000, endMs |-> 100000]>>]
      : st \in {"aligned", "fallback"} }
  \cup
  { [conversationId |-> "c2", alignmentStatus |-> "fallback", durationMs |-> 10000,
     segments |->
       <<[segmentId |-> "seg_0", index |-> 0, speakerId |-> "A",
          text |-> HiBack, startMs |-> 0, endMs |-> 3333],
         [segmentId |-> "seg_1", index |-> 1, speakerId |-> "A",
          text |-> HelloThere, startMs |-> 3333, endMs |-> 10000]>>],
    [conversationId |-> "c3", alignmentStatus |-> "fallback", durationMs |-> 0,
     segments |-> <<>>] }

\* audio.duration * 1000 as the decoder can report it
DecodedDurations ==
  { Finite(d) : d \in {0, 11500, 95000, 104000, 105000, 110000} }
    \cup {NaN, Infinity}

\* audio.currentTime * 1000 at a timeupdate
PlayTimes == {50000, 120000}

(* ----------------------- Viewer: the state machine ---------------------- *)

NoConversation ==
  [conversationId |-> "", alignmentStatus |-> "", durationMs |-> 0,
   segments |-> <<>>]

NoView ==
  [conversation |-> NoConversation, isPlaying |-> FALSE, currentTime |-> 0,
   realDuration |-> Finite(0), isSyncing |-> FALSE]

NoClosure == [conversation |-> NoConversation, isSyncing |-> FALSE]

NoAudio == [readyState |-> 0, duration |-> NaN, paused |-> TRUE]

NoSession ==
  [open |-> FALSE, nMetadata |-> 0, nRescale |-> 0, nOnUpdate |-> 0,
   lastUpdate |-> <<>>, called |-> FALSE, lastPre |-> NoConversation,
   lastDuration |-> NaN, lastRescaled |-> FALSE]

\* no viewer is open
ViewInit ==
  /\ view = NoView
  /\ closure = NoClosure
  /\ audio = NoAudio
  /\ session = NoSession

\* one call of handleMetadata with audio.duration * 1000 = dur, and the
\* onUpdate call it makes
MetadataStep(cl, v, dur, ses) ==
  /\ view' = handleMetadata(cl, v, dur)
  /\ session' =
       IF rescales(cl, dur)
         THEN [ses EXCEPT !.nRescale = @ + 1, !.nOnUpdate = @ + 1,
                          !.lastUpdate = <<fixedConversation(cl.conversation, dur.ms)>>,
                          !.called = TRUE, !.lastPre = v.conversation,
                          !.lastDuration = dur, !.lastRescaled = TRUE]
         ELSE [ses EXCEPT !.called = TRUE, !.lastPre = v.conversation,
                          !.lastDuration = dur, !.lastRescaled = FALSE]

\* the Viewer mounts on initialData and its audio effect runs: new Audio(url),
\* the immediate readyState check, the listeners
OpenViewer ==
  /\ ~session.open
  /\ \E c \in InitialConversations :
       LET v == [conversation |-> c, isPlaying |-> FALSE, currentTime |-> 0,
                 realDuration |-> Finite(c.durationMs), isSyncing |-> FALSE]
           cl == [conversation |-> c, isSyncing |-> FALSE]
           ses == [NoSession EXCEPT !.open = TRUE]
       IN /\ closure' = cl
          /\ \/ /\ audio' = NoAudio
                /\ view' = v
                /\ session' = ses
             \/ \E dur \in DecodedDurations :
                  /\ audio' = [readyState |-> 1, duration |-> dur, paused |-> TRUE]
                  /\ MetadataStep(cl, v, dur, ses)
  /\ UNCHANGED <<cbVars, jobVars, playerVars, switchVars, circuitVars, appVars, readerVars>>

\* the loadedmetadata listener
LoadedMetadata ==
  /\ session.open
  /\ session.nMetadata < MaxMetadata
  /\ \E dur \in DecodedDurations :
       /\ audio' = [audio EXCEPT !.readyState = 1, !.duration = dur]
       /\ MetadataStep(closure, view, dur,
                       [session EXCEPT !.nMetadata = @ + 1])
  /\ UNCHANGED closure
  /\ UNCHANGED <<cbVars, jobVars, playerVars, switchVars, circuitVars, appVars, readerVars>>

\* the durationchange listener: if (d > 0) setRealDuration(d)
DurationChange ==
  /\ session.open
  /\ \E dur \in DecodedDurations :
       /\ audio' = [audio EXCEPT !.duration = dur]
       /\ view' = IF greater(dur, Finite(0))
                    THEN [view EXCEPT !.realDuration = dur] ELSE view
  /\ UNCHANGED <<closure, session>>
  /\ UNCHANGED <<cbVars, jobVars, playerVars, switchVars, circuitVars, appVars, readerVars>>

\* the timeupdate listener
TimeUpdate ==
  /\ session.open
  /\ audio.readyState >= 1
  /\ \E nowMs \in PlayTimes :
       view' = [view EXCEPT
                  !.currentTime = nowMs,
                  !.realDuration = IF greater(Finite(nowMs), @)
                                     THEN Finite(nowMs) ELSE @]
  /\ UNCHANGED <<closure, audio, session>>
  /\ UNCHANGED <<cbVars, jobVars, playerVars, switchVars, circuitVars, appVars, readerVars>>

\* the ended listener
Ended ==
  /\ session.open
  /\ ~audio.paused
  /\ audio' = [audio EXCEPT !.paused = TRUE]
  /\ view' = [view EXCEPT !.isPlaying = FALSE]
  /\ UNCHANGED <<closure, session>>
  /\ UNCHANGED <<cbVars, jobVars, playerVars, switchVars, circuitVars, appVars, readerVars>>

\* togglePlay with audioRef.current set: pause() or play(), then the toggle
TogglePlay ==
  /\ session.open
  /\ audio' = [audio EXCEPT !.paused = view.isPlaying]
  /\ view' = [view EXCEPT !.isPlaying = ~view.isPlaying]
  /\ UNCHANGED <<closure, session>>
  /\ UNCHANGED <<cbVars, jobVars, playerVars, switchVars, circuitVars, appVars, readerVars>>

\* the Viewer unmounts: the cleanup of the audio effect
CloseViewer ==
  /\ session.open
  /\ view' = NoView
  /\ closure' = NoClosure
  /\ audio' = NoAudio
  /\ session' = NoSession
  /\ UNCHANGED <<cbVars, jobVars, playerVars, switchVars, circuitVars, appVars, readerVars>>

ViewNext ==
  \/ OpenViewer
  \/ LoadedMetadata
  \/ DurationChange
  \/ TimeUpdate
  \/ Ended
  \/ TogglePlay
  \/ CloseViewer

(* ------------------------ transcribeAudio: claims ----------------------- *)

\* the handler has returned or rejected
Finished == pc \in {"done", "rejected", "skipped"}

\* C10: when the alignment call succeeded, the analysis call failed (it threw
\* or its output did not parse) and no other call of the handler failed, the
\* Job ends with status complete and with zero terms, topics and people.
C10_AnalysisFailureCompletes ==
  ( /\ Finished
    /\ outcome.alignment = "ok"
    /\ outcome.analysis \in {"threw", "unparsable"}
    /\ faults = {} ) =>
      /\ doc.status = "complete"
      /\ Len(doc.terms) = 0
      /\ Len(doc.topics) = 0
      /\ Len(doc.people) = 0

\* the alignment call did not deliver segments
AlignmentFailed == outcome.alignment \in {"error status", "threw"}

\* nothing of the transcript has been written to the Job
NothingPersisted ==
  /\ doc.segments = <<>> /\ doc.speakers = <<>> /\ doc.terms = <<>>
  /\ doc.termOccurrences = <<>> /\ doc.topics = <<>> /\ doc.people = <<>>
  /\ doc.title = "" /\ doc.durationMs = 0

\* the update of the catch block was carried out
FailureRecorded == "failed-status write" \notin faults

Stopped == pc \in {"done", "rejected", "merging"}

\* C12: when the handler of a processing Job has stopped and its failure write,
\* if it came to it, was carried out, the Job has status complete or failed,
\* and failed with the captured message whenever a step of the try block
\* threw.
C12_ProcessingEnds ==
  (Stopped /\ FailureRecorded) =>
    /\ doc.status \in {"complete", "failed"}
    /\ (faults \cap {"status write", "download", "persistence"} # {}
          \/ AlignmentFailed \/ mergeThrows(analysis)) =>
         /\ doc.status = "failed"
         /\ doc.processingError = <<errorMessage>>

\* C13: within one invocation a status that is complete or failed is not
\* written again with another value; a Job written complete is not written
\* failed afterwards, also when the completion progress write fails.
C13_StatusTerminal ==
  [][doc.status \in {"complete", "failed"} => doc'.status = doc.status]_vars

C13_Witness ==
  /\ pc = "done" /\ doc.status = "complete"
  /\ progress # "complete" /\ "progress write" \in faults

\* C14: alignmentStatus changes only from pending to aligned or fallback; it
\* becomes aligned only in the write that makes status complete; the steps of
\* the catch block leave it as it was.
C14_AlignmentStatus ==
  [][ /\ doc'.alignmentStatus # doc.alignmentStatus =>
           /\ doc.alignmentStatus = "pending"
           /\ doc'.alignmentStatus \in {"aligned", "fallback"}
      /\ (doc'.alignmentStatus = "aligned" /\ doc.alignmentStatus # "aligned") =>
           /\ doc.status # "complete"
           /\ doc'.status = "complete"
      /\ pc \in {"setFailed", "markFailed"} =>
           doc'.alignmentStatus = doc.alignmentStatus ]_vars

C14_Witness ==
  /\ pc = "done" /\ doc.status = "failed" /\ doc.alignmentStatus = "pending"
  /\ "persistence" \in faults

\* the segment builder has run on the alignment output wx
Built == outcome.alignment = "ok"

\* the merge has returned processedData
Merged == pc \in {"persist", "setComplete"} \/ doc.status = "complete"

\* C15: the built segments are the utterances of the alignment output in
\* input order with index 0..n-1, and the merged segments keep that order and
\* index and carry the segmentId seg_<index>.
C15_SegmentIndices ==
  /\ Built =>
       /\ Len(built.segments) = Len(wx)
       /\ \A i \in 1..Len(wx) :
            /\ built.segments[i].index = i - 1
            /\ built.segments[i].text = wx[i].text
            /\ built.segments[i].startMs = floorMs(wx[i].start)
  /\ Merged =>
       /\ Len(merged.segments) = Len(wx)
       /\ \A i \in 1..Len(wx) :
            /\ merged.segments[i].index = i - 1
            /\ merged.segments[i].segmentId = "seg_" \o ToString(i - 1)
            /\ merged.segments[i].text = wx[i].text
  /\ doc.status = "complete" => doc.segments = merged.segments

C15_Witness ==
  /\ doc.status = "complete"
  /\ Len(wx) = 3 /\ Len(doc.segments) = 3
  /\ doc.segments[3].index = 2 /\ doc.segments[3].segmentId = "seg_2"
  /\ doc.segments[3].text = HiBack

\* the ids of a speaker list
speakerIds(speakers) == {speakers[i].id : i \in 1..Len(speakers)}

\* the labels of the alignment output
labelsOf(ws) == {ws[i].speaker : i \in 1..Len(ws)} \ {NoLabel}

\* C16: every built segment's speakerId is the id of a built speaker, also
\* when only some utterances carry a label; with no label at all the speaker
\* list is the one default speaker.
C16_SpeakerIdsResolve ==
  Built =>
    /\ \A i \in 1..Len(built.segments) :
         built.segments[i].speakerId \in speakerIds(built.speakers)
    /\ labelsOf(wx) = {} =>
         built.speakers = <<[id |-> "SPEAKER_00", name |-> "Speaker 1"]>>

\* the position of the first utterance of ws with label l
firstIndexOf(ws, l) ==
  CHOOSE i \in 1..Len(ws) :
    ws[i].speaker = l /\ \A j \in 1..(i - 1) : ws[j].speaker # l

\* the position of label l in the order of Array.prototype.sort()
sortRank(l) == CHOOSE i \in 1..Len(LabelsSorted) : LabelsSorted[i] = l

\* every label once, and the k-th speaker named 'Speaker k'
EachLabelOnceNamed ==
  /\ speakerIds(built.speakers) = labelsOf(wx)
  /\ Len(built.speakers) = Cardinality(labelsOf(wx))
  /\ \A k \in 1..Len(built.speakers) :
       built.speakers[k].name = "Speaker " \o ToString(k)

\* C17 as stated: the speaker list has every distinct label once, in the order
\* of first appearance in the alignment output, the k-th named 'Speaker k'.
C17_FirstAppearance ==
  (Built /\ labelsOf(wx) # {}) =>
    /\ EachLabelOnceNamed
    /\ \A j, k \in 1..Len(built.speakers) :
         j < k => firstIndexOf(wx, built.speakers[j].id)
                    < firstIndexOf(wx, built.speakers[k].id)

\* C17 amended: the speaker list has every distinct label once, in ascending
\* order of the labels (the order of sort()), the k-th named 'Speaker k';
\* the merge keeps the list and gives the k-th speaker the ordinal k-1.
C17_SortedLabels ==
  /\ (Built /\ labelsOf(wx) # {}) =>
       /\ EachLabelOnceNamed
       /\ \A j, k \in 1..Len(built.speakers) :
            j < k => sortRank(built.speakers[j].id) < sortRank(built.speakers[k].id)
  /\ Merged =>
       /\ Len(merged.speakers) = Len(built.speakers)
       /\ \A k \in 1..Len(merged.speakers) :
            /\ merged.speakers[k].speakerId = built.speakers[k].id
            /\ merged.speakers[k].colorIndex = k - 1

C17_Witness ==
  /\ Merged
  /\ Len(wx) = 2 /\ wx[1].speaker = "B" /\ wx[2].speaker = "A"
  /\ built.speakers = <<[id |-> "A", name |-> "Speaker 1"],
                        [id |-> "B", name |-> "Speaker 2"]>>

\* text.slice(startChar, endChar)
slice(text, startChar, endChar) == SubSeq(text, startChar + 1, endChar)

\* occurrence o lies inside segment seg and covers a spelling of term
OccurrenceOf(o, seg, term) ==
  /\ 0 <= o.startChar /\ o.startChar < o.endChar /\ o.endChar <= Len(seg.text)
  /\ \E j \in 1..Len(patternsOf(term)) :
       toLowerCase(slice(seg.text, o.startChar, o.endChar))
         = toLowerCase(patternsOf(term)[j])

\* C18: every occurrence of the merged data names one merged segment and one
\* merged term, has 0 <= startChar < endChar <= length of that segment's
\* text, and the text it covers is the term's display form or one of its
\* aliases up to case.
C18_Occurrences ==
  Merged =>
    \A k \in 1..Len(merged.termOccurrences) :
      LET o == merged.termOccurrences[k] IN
      /\ o.occurrenceId = "occ_" \o ToString(k - 1)
      /\ \E i \in 1..Len(merged.segments) : merged.segments[i].segmentId = o.segmentId
      /\ \E j \in 1..Len(merged.terms) : merged.terms[j].termId = o.termId
      /\ \A i \in 1..Len(merged.segments) : \A j \in 1..Len(merged.terms) :
           (merged.segments[i].segmentId = o.segmentId
              /\ merged.terms[j].termId = o.termId) =>
             OccurrenceOf(o, merged.segments[i], merged.terms[j])

\* an alias matched in another case, and a second term matched in a later segment
C18_Witness ==
  /\ doc.status = "complete"
  /\ Len(doc.termOccurrences) >= 3
  /\ \E k \in 1..Len(doc.termOccurrences) :
       /\ doc.termOccurrences[k].segmentId = "seg_1"
       /\ doc.termOccurrences[k].startChar = 0
       /\ doc.termOccurrences[k].endChar = 5
       /\ slice(doc.segments[2].text, 0, 5) = <<"H", "e", "l", "l", "o">>
  /\ \E k \in 1..Len(doc.termOccurrences) : doc.termOccurrences[k].termId = "t2"

\* the alignment result [{0, 5, 'Hello there', 'A'}, {5, 9, 'Hi back', 'B'}]
HelloHiAlignment ==
  <<[start |-> 0, end |-> 5000000, text |-> HelloThere, speaker |-> "A"],
    [start |-> 5000000, end |-> 9000000, text |-> HiBack, speaker |-> "B"]>>

\* the Job ran on that alignment result and on the analysis result titled
\* 'Greeting' (one main topic over segments 0..1, no terms, no people)
GreetingJob ==
  /\ wx = HelloHiAlignment
  /\ analysis.title = "Greeting"
  /\ doc.status = "complete"

\* C26: for the alignment result [{0,5,'Hello there','A'},{5,9,'Hi back','B'}]
\* and the analysis result 'Greeting' the Job persists the speakers 'Speaker 1'
\* and 'Speaker 2', the segments (0,5000) and (5000,9000), one topic with
\* startIndex 0 and endIndex 1, no terms, no term occurrences, no people,
\* durationMs 9000, status complete and alignment-status aligned.
C26_EndToEnd ==
  GreetingJob =>
    /\ Len(doc.speakers) = 2
    /\ doc.speakers[1].displayName = "Speaker 1"
    /\ doc.speakers[2].displayName = "Speaker 2"
    /\ Len(doc.segments) = 2
    /\ <<doc.segments[1].startMs, doc.segments[1].endMs>> = <<0, 5000>>
    /\ <<doc.segments[2].startMs, doc.segments[2].endMs>> = <<5000, 9000>>
    /\ Len(doc.topics) = 1
    /\ doc.topics[1].startIndex = 0 /\ doc.topics[1].endIndex = 1
    /\ doc.terms = <<>>
    /\ doc.termOccurrences = <<>>
    /\ doc.people = <<>>
    /\ doc.durationMs = 9000
    /\ doc.status = "complete"
    /\ doc.alignmentStatus = "aligned"

C26_Witness ==
  /\ GreetingJob
  /\ pc = "done"
  /\ doc.title = "Greeting"
  /\ doc.segments[1].text = HelloThere /\ doc.segments[2].text = HiBack
  /\ doc.durationMs = 9000

\* the status write, the download, the alignment, the analysis, the merge and
\* the persist write of the Job all succeeded
StagesSucceeded ==
  /\ faults \cap {"status write", "download", "persistence"} = {}
  /\ outcome.alignment = "ok"
  /\ outcome.analysis = "ok"
  /\ ~mergeThrows(analysis)
  /\ ~mergeHangs(built, analysis)

\* a Job whose stages all succeeded has status complete when the handler has
\* ended, whatever its progress writes did
C27_CompleteAnyway ==
  (Finished /\ StagesSucceeded) => (pc = "done" /\ doc.status = "complete")

\* a step of the try block whose progress write failed (the marker is as it
\* was) goes on to the stage that follows it
C27_NextStage ==
  (progress' = progress /\ pc' # pc) =>
    /\ pc = "setStepTranscribing" => pc' = "download"
    /\ pc = "setStepAnalyzing" => pc' = "analyze"
    /\ pc = "setStepFinalizing" =>
          \/ pc' = "persist"
          \/ mergeThrows(analysis) \/ mergeHangs(built, analysis)
    /\ pc = "setComplete" => pc' = "done" /\ doc' = doc

\* C27: a failed progress-marker write (setStep, setComplete) does not change
\* the Job's outcome: the handler goes on with the next stage, and a Job whose
\* download, alignment, analysis, merge and persistence all succeed ends with
\* status complete even if progress writes failed.
C27_ProgressWriteNotFatal == []C27_CompleteAnyway /\ [][C27_NextStage]_vars

\* a completed Job none of whose progress writes went through
C27_Witness ==
  /\ Finished /\ StagesSucceeded
  /\ "progress write" \in faults
  /\ progress = "none"
  /\ doc.status = "complete"

\* the awaits of the try block in program order, and the return
StageOrder ==
  <<"markProcessing", "setStepTranscribing", "download", "align",
    "setStepAnalyzing", "analyze", "setStepFinalizing", "persist",
    "setComplete", "done">>

stageRank(p) == CHOOSE i \in 1..Len(StageOrder) : StageOrder[i] = p

InTryBlock(p) == \E i \in 1..Len(StageOrder) : StageOrder[i] = p

\* the handler moves from a stage only to the stage that follows it, or out
\* of the try block
C28_Sequential ==
  (pc' # pc /\ InTryBlock(pc) /\ InTryBlock(pc')) =>
    stageRank(pc') = stageRank(pc) + 1

\* the analysis call was made only after a successful alignment call and was
\* given the segments and speakers built from that alignment output; merged
\* data exists only after a successful analysis call; the persisted data is
\* the finished merge of the built segments and the analysis result
C28_Dependencies ==
  /\ (pc = "analyze" \/ outcome.analysis # "not called") =>
        /\ outcome.alignment = "ok"
        /\ built = buildSegmentsFromWhisperX(wx)
  /\ outcome.analysis # "not called" => outcome.given = <<built>>
  /\ merged # NoMerged =>
        /\ outcome.analysis = "ok"
        /\ merged = mergeWhisperXAndGeminiData(built, analysis)
  /\ doc.status = "complete" =>
        /\ merged # NoMerged
        /\ doc.segments = merged.segments /\ doc.topics = merged.topics
        /\ pc \in {"setComplete", "done"}

NoNote == [speakerId |-> "", inferredName |-> "", role |-> "", notes |-> ""]

noteFor(i) ==
  LET found == findNote(analysis.speakerNotes, doc.speakers[i].speakerId)
  IN IF found = <<>> THEN NoNote ELSE found[1]

defaultName(i) == built.speakers[i].name

\* C29 as stated: an inferred name is the displayName exactly; a role alone
\* gives '<default name> (<role>)'; neither name nor role leaves the default.
C29_DisplayNames ==
  doc.status = "complete" =>
    \A i \in 1..Len(doc.speakers) :
      LET n == noteFor(i) d == doc.speakers[i].displayName IN
      /\ n.inferredName # "" => d = n.inferredName
      /\ (n.inferredName = "" /\ n.role # "") =>
           d = defaultName(i) \o " (" \o n.role \o ")"
      /\ (n.inferredName = "" /\ n.role = "") => d = defaultName(i)

\* C29 as the merge does it: a name with a role gives '<name> (<role>)', a
\* name without a role the name; a role alone '<default name> (<role>)';
\* notes alone '<default name> (<notes>)'; nothing, or no note, the default.
C29_DisplayNamesWithRoleAndNotes ==
  doc.status = "complete" =>
    \A i \in 1..Len(doc.speakers) :
      LET n == noteFor(i) d == doc.speakers[i].displayName IN
      /\ (n.inferredName # "" /\ n.role # "") =>
           d = n.inferredName \o " (" \o n.role \o ")"
      /\ (n.inferredName # "" /\ n.role = "") => d = n.inferredName
      /\ (n.inferredName = "" /\ n.role # "") =>
           d = defaultName(i) \o " (" \o n.role \o ")"
      /\ (n.inferredName = "" /\ n.role = "" /\ n.notes # "") =>
           d = defaultName(i) \o " (" \o n.notes \o ")"
      /\ (n.inferredName = "" /\ n.role = "" /\ n.notes = "") =>
           d = defaultName(i)

\* a persisted Job whose first speaker got a name with a role and whose second
\* speaker got notes only
C29_Witness ==
  /\ doc.status = "complete"
  /\ Len(doc.speakers) = 2
  /\ noteFor(1).inferredName = "John" /\ noteFor(1).role = "host"
  /\ doc.speakers[1].displayName = "John (host)"
  /\ noteFor(2).notes = "works at Acme"
  /\ doc.speakers[2].displayName = "Speaker 2 (works at Acme)"

\* C30: every Topic of a Job persisted with status complete references valid
\* segment indices, 0 <= startIndex <= endIndex <= n - 1 with n the number of
\* persisted Segments, whatever topic list the analysis service returned.
C30_TopicRanges ==
  doc.status = "complete" =>
    \A k \in 1..Len(doc.topics) :
      /\ 0 <= doc.topics[k].startIndex
      /\ doc.topics[k].startIndex <= doc.topics[k].endIndex
      /\ doc.topics[k].endIndex <= Len(doc.segments) - 1

\* C38: the term-occurrence computation of the merge terminates for every
\* finite list of terms and of segments, a term with an empty display text or
\* an empty alias and a segment with an empty text included: whenever the
\* handler is about to run the merge on well-shaped analysis output, no pass
\* of the occurrence loop repeats one match for ever.
C38_OccurrencesTerminate ==
  (pc = "setStepFinalizing" /\ ~mergeThrows(analysis)) =>
    \A k \in 1..(Len(built.segments) * Len(analysis.terms)) :
      ~loopResults(mergeWhisperXAndGeminiData(built, analysis).segments,
                   putTerms(<<>>, analysis.terms))[k].hangs

\* C39: a storage event for an object that is not under audio/, or whose
\* content type is not audio/*, or whose path does not have exactly the three
\* parts audio/{userId}/{file}, causes no Job mutation at all: the handler
\* returns at once, and the Job document, the progress, the alignment and the
\* analysis service are as they were before the event.
NotAnAudioUpload ==
  \/ event.path = <<>>
  \/ event.path[1] # "audio"
  \/ event.contentType \in {"", "video/mp4"}
  \/ Len(event.path) # 3

C39_IgnoredEventNoMutation ==
  (pc # "idle" /\ NotAnAudioUpload) =>
    /\ pc = "skipped"
    /\ doc = NewDoc
    /\ progress = "none"
    /\ outcome.alignment = "not called"
    /\ outcome.analysis = "not called"
    /\ wx = <<>> /\ built = NoBuilt /\ analysis = NoAnalysis /\ merged = NoMerged
    /\ errorMessage = "" /\ faults = {}

C39_Witness ==
  /\ pc = "skipped"
  /\ event.path = <<"audio", "u1", "old", "c1.mp3">>
  /\ event.contentType = "audio/mpeg"
  /\ doc = NewDoc /\ progress = "none"

(* ---------------------------- Viewer: claims ---------------------------- *)

\* the pipeline-reported duration of a conversation: the end of its last segment
pipelineDuration(c) == c.segments[Len(c.segments)].endMs

\* the last metadata notification of the open session met a conversation with
\* segments that this session had not corrected before
MetadataOnUncorrected ==
  /\ session.open /\ session.called
  /\ Len(session.lastPre.segments) > 0
  /\ session.nRescale = IF session.lastRescaled THEN 1 ELSE 0

\* the decoded duration differs from p ms by more than 2000 ms and its ratio
\* to p lies outside [0.95, 1.05]
BeyondBothFloors(dur, p) ==
  CASE dur.kind = "NaN" -> FALSE
    [] dur.kind = "Infinity" -> TRUE
    [] OTHER -> /\ (dur.ms - p > 2000 \/ p - dur.ms > 2000)
                /\ (100 * dur.ms < 95 * p \/ 100 * dur.ms > 105 * p)

\* what the last metadata notification did to the segments
CorrectionAsComputed ==
  LET pre == session.lastPre
      p == pipelineDuration(pre)
      d == session.lastDuration.ms
  IN /\ session.lastRescaled =>
          /\ Len(view.conversation.segments) = Len(pre.segments)
          /\ \A i \in 1..Len(pre.segments) :
               /\ view.conversation.segments[i].startMs
                    = scaleMs(pre.segments[i].startMs, d, p)
               /\ view.conversation.segments[i].endMs
                    = scaleMs(pre.segments[i].endMs, d, p)
          /\ (d = 110000 /\ p = 100000) =>
               /\ view.conversation.segments[1].endMs = 44000
               /\ view.conversation.segments[2].startMs = 44000
               /\ view.conversation.segments[2].endMs = 110000
     /\ ~session.lastRescaled => view.conversation.segments = pre.segments

C20_AtMostOnce ==
  session.open => (session.nRescale <= 1 /\ session.nOnUpdate <= 1)

\* C21: while the viewer is open on a conversation whose alignmentStatus is
\* aligned, no segment timestamp has been rewritten and onUpdate has not been
\* called with rescaled segments, whatever durations the decoder reported.
C21_AlignedNoCorrection ==
  (session.open /\ closure.conversation.alignmentStatus = "aligned") =>
    /\ session.nRescale = 0
    /\ session.nOnUpdate = 0
    /\ view.conversation.segments = closure.conversation.segments

(* ------------------ Viewer: switching the audio resource ----------------- *)

\* notifications of the previous audio element delivered after a switch
MaxStale == 2

\* no audio element has been replaced
NoPrevious ==
  [attached |-> FALSE, closure |-> NoClosure, delivered |-> 0]

SwitchInit == previous = NoPrevious

\* initialData changes to another conversation: setConversation(initialData),
\* then the audio effect's cleanup (pause, src = '', audioRef = null; the
\* listeners stay on the old element) and the effect on the new audioUrl
SwitchAudio ==
  /\ session.open
  /\ ~previous.attached
  /\ \E c \in InitialConversations :
       /\ c.conversationId # view.conversation.conversationId
       /\ LET v == [view EXCEPT !.conversation = c]
              cl == [conversation |-> c, isSyncing |-> view.isSyncing]
              ses == [NoSession EXCEPT !.open = TRUE]
          IN /\ closure' = cl
             /\ \/ /\ audio' = NoAudio
                   /\ view' = v
                   /\ session' = ses
                \/ \E dur \in DecodedDurations :
                     /\ audio' = [readyState |-> 1, duration |-> dur, paused |-> TRUE]
                     /\ MetadataStep(cl, v, dur, ses)
  /\ previous' = [attached |-> TRUE, closure |-> closure, delivered |-> 0]
  /\ UNCHANGED <<cbVars, jobVars, playerVars, circuitVars, appVars, readerVars>>

\* a notification of the previous element is delivered
StaleDelivery ==
  /\ previous.attached
  /\ previous.delivered < MaxStale
  /\ previous' = [previous EXCEPT !.delivered = @ + 1]

\* loadedmetadata of the previous element: its handleMetadata, with the
\* conversation and isSyncing of its own closure
StaleLoadedMetadata ==
  /\ StaleDelivery
  /\ \E dur \in DecodedDurations :
       MetadataStep(previous.closure, view, dur, session)
  /\ UNCHANGED <<closure, audio>>
  /\ UNCHANGED <<cbVars, jobVars, playerVars, circuitVars, appVars, readerVars>>

\* durationchange of the previous element
StaleDurationChange ==
  /\ StaleDelivery
  /\ \E dur \in DecodedDurations :
       view' = IF greater(dur, Finite(0))
                 THEN [view EXCEPT !.realDuration = dur] ELSE view
  /\ UNCHANGED <<closure, audio, session>>
  /\ UNCHANGED <<cbVars, jobVars, playerVars, circuitVars, appVars, readerVars>>

\* timeupdate of the previous element; the load algorithm started by
\* src = '' puts its position at 0
StaleTimeUpdate ==
  /\ StaleDelivery
  /\ \E nowMs \in PlayTimes \cup {0} :
       view' = [view EXCEPT
                  !.currentTime = nowMs,
                  !.realDuration = IF greater(Finite(nowMs), @)
                                     THEN Finite(nowMs) ELSE @]
  /\ UNCHANGED <<closure, audio, session>>
  /\ UNCHANGED <<cbVars, jobVars, playerVars, circuitVars, appVars, readerVars>>

\* ended of the previous element
StaleEnded ==
  /\ StaleDelivery
  /\ view' = [view EXCEPT !.isPlaying = FALSE]
  /\ UNCHANGED <<closure, audio, session>>
  /\ UNCHANGED <<cbVars, jobVars, playerVars, circuitVars, appVars, readerVars>>

SwitchNext ==
  \/ OpenViewer
  \/ TimeUpdate
  \/ TogglePlay
  \/ SwitchAudio
  \/ StaleLoadedMetadata
  \/ StaleDurationChange
  \/ StaleTimeUpdate
  \/ StaleEnded

\* C23: a notification of the previous audio element delivered after the
\* switch leaves currentTime, realDuration, isPlaying and the conversation
\* with its segments as they are, and calls no onUpdate.
C23_StaleIgnored ==
  [][previous'.delivered = previous.delivered + 1 =>
       /\ view'.currentTime = view.currentTime
       /\ view'.realDuration = view.realDuration
       /\ view'.isPlaying = view.isPlaying
       /\ view'.conversation = view.conversation
       /\ session'.nOnUpdate = session.nOnUpdate]_vars

(* ------------- Viewer: sessions on the App's saved conversation ---------- *)

\* viewer sessions opened one after the other on one conversation
MaxSessions == 2

\* names typed into the speaker rename field
NewNames == {"Ann", "Bob"}

\* conversation.speakers (the display names by speakerId)
DefaultSpeakers == [A |-> "Speaker 1", B |-> "Speaker 2"]

\* the conversations of the App's list, with their speakers
SavedConversations ==
  { c @@ [speakers |-> DefaultSpeakers] : c \in InitialConversations }

\* the duration the decoder reports for the audio file of a conversation
FileDurations == { dur \in DecodedDurations : isFiniteNonZero(dur) }

\* the App before a conversation is opened; corrected and renamed are history
NoApp ==
  [stored |-> NoConversation, decoded |-> NaN, sessions |-> 0,
   corrected |-> 0, renamed |-> <<>>]

AppInit == app = NoApp

\* handleUpdateConversation(updated): the entry of the list is replaced and
\* saved
handleUpdateConversation(a, updated) == [a EXCEPT !.stored = updated]

\* the onUpdate call of handleMetadata, if it makes one
metadataUpdate(a, cl, dur) ==
  IF rescales(cl, dur)
    THEN [handleUpdateConversation(a, fixedConversation(cl.conversation, dur.ms))
            EXCEPT !.corrected = IF @ = 0 THEN a.sessions + 1 ELSE @]
    ELSE a

\* saveSpeakerName(newName) with editingSpeakerId = 'A'
saveSpeakerName(conversation, newName) ==
  [conversation EXCEPT !.speakers.A = newName]

\* the App shows the Viewer on its entry of the conversation: the first time
\* on one of the saved conversations, later on what the entry has become
StoredOpen ==
  /\ ~session.open
  /\ app.sessions < MaxSessions
  /\ \E c \in IF app.sessions = 0 THEN SavedConversations ELSE {app.stored},
        d \in IF app.sessions = 0 THEN FileDurations ELSE {app.decoded} :
       LET v == [conversation |-> c, isPlaying |-> FALSE, currentTime |-> 0,
                 realDuration |-> Finite(c.durationMs), isSyncing |-> FALSE]
           cl == [conversation |-> c, isSyncing |-> FALSE]
           ses == [NoSession EXCEPT !.open = TRUE]
           a == [app EXCEPT !.stored = c, !.decoded = d]
       IN /\ closure' = cl
          /\ \/ /\ audio' = NoAudio
                /\ view' = v
                /\ session' = ses
                /\ app' = a
             \/ /\ audio' = [readyState |-> 1, duration |-> d, paused |-> TRUE]
                /\ MetadataStep(cl, v, d, ses)
                /\ app' = metadataUpdate(a, cl, d)
  /\ UNCHANGED <<cbVars, jobVars, playerVars, switchVars, circuitVars, readerVars>>

\* the loadedmetadata listener, the decoder reporting the file's duration
StoredMetadata ==
  /\ session.open
  /\ app.stored # NoConversation
  /\ session.nMetadata < MaxMetadata
  /\ audio' = [audio EXCEPT !.readyState = 1, !.duration = app.decoded]
  /\ MetadataStep(closure, view, app.decoded,
                  [session EXCEPT !.nMetadata = @ + 1])
  /\ app' = metadataUpdate(app, closure, app.decoded)
  /\ UNCHANGED closure
  /\ UNCHANGED <<cbVars, jobVars, playerVars, switchVars, circuitVars, readerVars>>

\* the user renames speaker A: setConversation(updated), onUpdate(updated)
StoredRename ==
  /\ session.open
  /\ app.stored # NoConversation
  /\ \E newName \in NewNames :
       LET updated == saveSpeakerName(view.conversation, newName) IN
       /\ view' = [view EXCEPT !.conversation = updated]
       /\ app' = [handleUpdateConversation(app, updated)
                    EXCEPT !.renamed = <<newName>>]
  /\ UNCHANGED <<closure, audio, session>>
  /\ UNCHANGED <<cbVars, jobVars, playerVars, switchVars, circuitVars, readerVars>>

\* onBack: the Viewer unmounts
StoredClose ==
  /\ session.open
  /\ app.stored # NoConversation
  /\ view' = NoView
  /\ closure' = NoClosure
  /\ audio' = NoAudio
  /\ session' = NoSession
  /\ app' = [app EXCEPT !.sessions = @ + 1]
  /\ UNCHANGED <<cbVars, jobVars, playerVars, switchVars, circuitVars, readerVars>>

StoredNext ==
  \/ StoredOpen
  \/ StoredMetadata
  \/ StoredRename
  \/ StoredClose

\* C31: once a drift correction has been applied and saved, a later session on
\* the same conversation with the same decoded duration applies no further
\* correction: the saved segments are within the no-correction thresholds.
C31_NoRepeatedCorrection ==
  (session.open /\ app.corrected # 0 /\ app.corrected <= app.sessions) =>
    /\ session.nRescale = 0
    /\ session.nOnUpdate = 0
    /\ view.conversation.segments = app.stored.segments
    /\ absDiff(app.decoded.ms, pipelineDuration(app.stored)) <= DriftFloorMs

\* the second session on a conversation corrected in the first has received
\* the decoder's metadata
C31_Witness ==
  /\ session.open /\ app.corrected = 1 /\ app.sessions = 1
  /\ session.called
  /\ session.lastDuration = app.decoded
  /\ app.stored.durationMs = app.decoded.ms
  /\ session.nRescale = 0

\* C36: a speaker rename made in the viewer is still in the conversation state
\* and in the saved conversation after drift correction has run, also when
\* the rename was made before the decoder's metadata arrived.
C36_EditSurvivesCorrection ==
  app.renamed # <<>> =>
    /\ app.stored.speakers.A = app.renamed[1]
    /\ session.open => view.conversation.speakers.A = app.renamed[1]

(* ------------------------ Viewer: the transcript pane ------------------- *)

\* a conversation with a silence between its segments and one whose
\* segments overlap
GappedSegments ==
  <<[segmentId |-> "seg_0", index |-> 0, speakerId |-> "A",
     text |-> HelloThere, startMs |-> 10000, endMs |-> 40000],
    [segmentId |-> "seg_1", index |-> 1, speakerId |-> "B",
     text |-> HiBack, startMs |-> 70000, endMs |-> 100000]>>

OverlappingSegments ==
  <<[segmentId |-> "seg_0", index |-> 0, speakerId |-> "A",
     text |-> HelloThere, startMs |-> 0, endMs |-> 70000],
    [segmentId |-> "seg_1", index |-> 1, speakerId |-> "B",
     text |-> HiBack, startMs |-> 40000, endMs |-> 100000]>>

\* conversation.segments of the conversations shown
ReaderSegments ==
  {c.segments : c \in InitialConversations}
    \cup {GappedSegments, OverlappingSegments}

\* values of currentTime: from timeupdate, from a seek, from a scrub
ReaderTimes == {0, 5000, 40000, 50000, 70000, 100000, 120000}

\* currentTime >= seg.startMs && currentTime < seg.endMs
isActive(seg, t) == t >= seg.startMs /\ t < seg.endMs

\* segments.findIndex(...) searched from position i (0-based result, -1 if none)
RECURSIVE findIndexFrom(_, _, _)
findIndexFrom(segments, t, i) ==
  IF i > Len(segments) THEN -1
  ELSE IF isActive(segments[i], t) THEN i - 1
  ELSE findIndexFrom(segments, t, i + 1)

\* const activeSegmentIndex = conversation.segments.findIndex(...)
activeSegmentIndex(segments, t) == findIndexFrom(segments, t, 1)

\* the dependency list of the auto-scroll effect in a render
scrollDeps(r) ==
  <<activeSegmentIndex(r.segments, r.currentTime), r.isPlaying, r.segments>>

\* variant: the auto-scroll effect without the isPlaying test
autoScroll_anytime(r) ==
  LET idx == activeSegmentIndex(r.segments, r.currentTime) IN
  IF scrollDeps(r) = r.deps THEN [r EXCEPT !.scrolled = FALSE]
  ELSE IF idx # -1
    THEN [r EXCEPT !.deps = scrollDeps(r), !.scrolled = TRUE,
                   !.target = r.segments[idx + 1].segmentId]
    ELSE [r EXCEPT !.deps = scrollDeps(r), !.scrolled = FALSE]

\* the render that follows a state change and its auto-scroll effect: it runs
\* when a dependency changed and scrolls if (isPlaying && activeSegmentIndex !== -1)
autoScroll(r) ==
  LET idx == activeSegmentIndex(r.segments, r.currentTime) IN
  IF scrollDeps(r) = r.deps THEN [r EXCEPT !.scrolled = FALSE]
  ELSE IF r.isPlaying /\ idx # -1
    THEN [r EXCEPT !.deps = scrollDeps(r), !.scrolled = TRUE,
                   !.target = r.segments[idx + 1].segmentId]
    ELSE [r EXCEPT !.deps = scrollDeps(r), !.scrolled = FALSE]

\* no viewer is shown; cause, scrolled and target are history of the last step
NoReader ==
  [open |-> FALSE, segments |-> <<>>, currentTime |-> 0, isPlaying |-> FALSE,
   deps |-> <<>>, scrolled |-> FALSE, target |-> "", cause |-> "none"]

ReaderInit == reader = NoReader

\* the Viewer mounts: currentTime 0, paused, and the effect's first run
ReaderOpen ==
  /\ ~reader.open
  /\ \E segments \in ReaderSegments :
       reader' = autoScroll([NoReader EXCEPT !.open = TRUE,
                                             !.segments = segments,
                                             !.cause = "mount"])
  /\ UNCHANGED <<cbVars, jobVars, viewVars, playerVars, switchVars, circuitVars,
                 appVars>>

\* the timeupdate listener: setCurrentTime(nowMs)
ReaderTimeUpdate ==
  /\ reader.open
  /\ \E nowMs \in ReaderTimes :
       reader' = autoScroll([reader EXCEPT !.currentTime = nowMs,
                                           !.cause = "timeupdate"])
  /\ UNCHANGED <<cbVars, jobVars, viewVars, playerVars, switchVars, circuitVars,
                 appVars>>

\* handleSeek(ms): setCurrentTime(ms)
ReaderSeek ==
  /\ reader.open
  /\ \E ms \in ReaderTimes :
       reader' = autoScroll([reader EXCEPT !.currentTime = ms,
                                           !.cause = "seek"])
  /\ UNCHANGED <<cbVars, jobVars, viewVars, playerVars, switchVars, circuitVars,
                 appVars>>

\* handleScrub(ms): setCurrentTime(ms)
ReaderScrub ==
  /\ reader.open
  /\ \E ms \in ReaderTimes :
       reader' = autoScroll([reader EXCEPT !.currentTime = ms,
                                           !.cause = "scrub"])
  /\ UNCHANGED <<cbVars, jobVars, viewVars, playerVars, switchVars, circuitVars,
                 appVars>>

\* togglePlay: setIsPlaying(!isPlaying)
ReaderTogglePlay ==
  /\ reader.open
  /\ reader' = autoScroll([reader EXCEPT !.isPlaying = ~@, !.cause = "toggle"])
  /\ UNCHANGED <<cbVars, jobVars, viewVars, playerVars, switchVars, circuitVars,
                 appVars>>

\* the ended listener: setIsPlaying(false)
ReaderEnded ==
  /\ reader.open
  /\ reader.isPlaying
  /\ reader' = autoScroll([reader EXCEPT !.isPlaying = FALSE, !.cause = "ended"])
  /\ UNCHANGED <<cbVars, jobVars, viewVars, playerVars, switchVars, circuitVars,
                 appVars>>

ReaderNext ==
  \/ ReaderOpen
  \/ ReaderTimeUpdate
  \/ ReaderSeek
  \/ ReaderScrub
  \/ ReaderTogglePlay
  \/ ReaderEnded

\* the segments are ordered and do not overlap
NonOverlapping(segments) ==
  \A i \in 1..Len(segments) - 1 : segments[i].endMs <= segments[i + 1].startMs

\* the positions of the segments whose interval holds the time t
Holding(segments, t) == {i \in 1..Len(segments) : isActive(segments[i], t)}

\* the active segment is a segment with startMs <= t < endMs: the only one
\* when the segments do not overlap, and there is none exactly when no
\* interval holds t
C32_ActiveSegment ==
  reader.open =>
    LET idx == activeSegmentIndex(reader.segments, reader.currentTime)
        held == Holding(reader.segments, reader.currentTime)
    IN /\ idx = -1 <=> held = {}
       /\ idx # -1 => idx + 1 \in held
       /\ NonOverlapping(reader.segments) =>
            /\ Cardinality(held) <= 1
            /\ idx # -1 => held = {idx + 1}

\* the last step scrolled the transcript only if it left the viewer playing,
\* and then to the active segment; a step that leaves the viewer paused,
\* whatever it did to the current time, did not scroll
C32_ScrollsOnlyPlaying ==
  reader.scrolled =>
    /\ reader.isPlaying
    /\ LET idx == activeSegmentIndex(reader.segments, reader.currentTime)
       IN idx # -1 /\ reader.target = reader.segments[idx + 1].segmentId

\* C32: for every current time the active segment is the segment with
\* startMs <= t < endMs (at most one without overlaps, none when t is in no
\* interval), and the transcript is auto-scrolled to it only while isPlaying
\* is true: while paused no seek, scrub or time-update scrolls.
C32_ActiveAndAutoScroll == C32_ActiveSegment /\ C32_ScrollsOnlyPlaying

\* a time-update while playing made the second segment active and scrolled
\* to it
C32_Witness ==
  /\ reader.open
  /\ reader.segments = GappedSegments /\ reader.currentTime = 70000
  /\ activeSegmentIndex(reader.segments, reader.currentTime) = 1
  /\ reader.cause = "timeupdate" /\ reader.isPlaying /\ reader.scrolled
  /\ reader.target = "seg_1"

\* a seek while paused made the second segment active without a scroll
PausedSeekNoScroll ==
  /\ reader.open
  /\ reader.segments = GappedSegments /\ reader.currentTime = 70000
  /\ reader.cause = "seek" /\ ~reader.isPlaying /\ ~reader.scrolled
  /\ reader.deps[1] = 1

displayValue(pl) == IF pl.isDragging THEN pl.sliderValue ELSE pl.currentTimeMs

\* the re-render after a handler: the controlled input shows displayValue
render(pl) == [pl EXCEPT !.value = displayValue(pl)]

\* Viewer.handleScrub, passed as onScrub
handleScrub(pl, ms) == [pl EXCEPT !.currentTimeMs = ms]

\* Viewer.handleSeek, passed as onSeek: the decoder seek
handleSeek(pl, ms) ==
  [pl EXCEPT !.currentTimeMs = ms, !.decoderMs = ms,
             !.nSeek = @ + 1, !.seekValue = <<ms>>]

\* AudioPlayer.handleSeekChange
handleSeekChange(pl, val) ==
  LET set == [pl EXCEPT !.sliderValue = val]
  IN IF pl.isDraggingRef THEN handleScrub(set, val) ELSE set

\* commitSeek without the test and the clearing of isDraggingRef
commitSeek_unguarded(pl, val) ==
  handleSeek([pl EXCEPT !.isDragging = FALSE], val)

\* AudioPlayer.commitSeek
commitSeek(pl, val) ==
  IF ~pl.isDraggingRef THEN pl
  ELSE handleSeek([pl EXCEPT !.isDraggingRef = FALSE, !.isDragging = FALSE], val)

\* AudioPlayer.handlePointerDown
handlePointerDown(pl) ==
  [pl EXCEPT !.isDraggingRef = TRUE, !.isDragging = TRUE,
             !.sliderValue = pl.currentTimeMs]

\* AudioPlayer.handlePointerUp: e.currentTarget.value is the input's value
handlePointerUp(pl) == commitSeek(pl, pl.value)

\* AudioPlayer.handleGlobalPointerUp: sliderRef.current.value is the same value
handleGlobalPointerUp(pl) ==
  IF pl.isDraggingRef
    THEN handleSeek([pl EXCEPT !.isDraggingRef = FALSE, !.isDragging = FALSE],
                    pl.value)
    ELSE pl

(* -------------------- AudioPlayer: the state machine -------------------- *)

\* positions in ms that the pointer can drag the slider to
SliderValues == {10000, 30000, 50000}

\* positions in ms that the decoder reports at a timeupdate
DecoderTimes == {10000, 20000, 60000}

\* the AudioPlayer as mounted, with the history of the current drag:
\* down = a pointer is down on the control, released = its release was seen,
\* nSeek = onSeek calls since the pointer went down, dragged = the value the
\* pointer last put on the slider
NewPlayer ==
  [isDragging |-> FALSE, isDraggingRef |-> FALSE, sliderValue |-> 0,
   value |-> 0, currentTimeMs |-> 0, decoderMs |-> 0,
   nSeek |-> 0, seekValue |-> <<>>,
   down |-> FALSE, released |-> FALSE, where |-> "none", dragged |-> 0]

PlayerInit == player = NewPlayer

\* pointerdown on the position control
PointerDown ==
  /\ ~player.down
  /\ player' = render([handlePointerDown(player) EXCEPT
                         !.down = TRUE, !.released = FALSE, !.where = "none",
                         !.nSeek = 0, !.seekValue = <<>>,
                         !.dragged = player.value])
  /\ UNCHANGED <<cbVars, jobVars, viewVars, switchVars, circuitVars, appVars, readerVars>>

\* the pointer moves the slider to val: the input's change event
SeekChange ==
  /\ player.down
  /\ \E val \in SliderValues :
       player' = render([handleSeekChange([player EXCEPT !.value = val], val)
                           EXCEPT !.dragged = val])
  /\ UNCHANGED <<cbVars, jobVars, viewVars, switchVars, circuitVars, appVars, readerVars>>

\* the slider is moved by the keyboard, with no pointer down
KeyChange ==
  /\ ~player.down
  /\ \E val \in SliderValues :
       player' = render(handleSeekChange([player EXCEPT !.value = val], val))
  /\ UNCHANGED <<cbVars, jobVars, viewVars, switchVars, circuitVars, appVars, readerVars>>

\* the pointer is released on the control: the control's onPointerUp, then
\* the document listener for the same event
PointerUpOnControl ==
  /\ player.down
  /\ player' = render([handleGlobalPointerUp(handlePointerUp(player)) EXCEPT
                         !.down = FALSE, !.released = TRUE, !.where = "control"])
  /\ UNCHANGED <<cbVars, jobVars, viewVars, switchVars, circuitVars, appVars, readerVars>>

\* pointerup or pointercancel reaches the document only: a release outside
\* the control, or any other pointer release on the page
PointerUpOutside ==
  /\ player' = render([handleGlobalPointerUp(player) EXCEPT
                         !.down = FALSE,
                         !.released = (player.down \/ player.released),
                         !.where = IF player.down THEN "outside" ELSE player.where])
  /\ UNCHANGED <<cbVars, jobVars, viewVars, switchVars, circuitVars, appVars, readerVars>>

\* the Viewer's timeupdate listener moves currentTimeMs to the decoder's time
PlayerTimeUpdate ==
  /\ \E t \in DecoderTimes :
       player' = render([player EXCEPT !.decoderMs = t, !.currentTimeMs = t])
  /\ UNCHANGED <<cbVars, jobVars, viewVars, switchVars, circuitVars, appVars, readerVars>>

PlayerNext ==
  \/ PointerDown
  \/ SeekChange
  \/ KeyChange
  \/ PointerUpOnControl
  \/ PointerUpOutside
  \/ PlayerTimeUpdate

(* -------------------------- AudioPlayer: claims ------------------------- *)

\* C22: from pointer down to the release onSeek is not called; once the
\* release has been seen, on the control (by both handlers) or outside it,
\* onSeek has been called exactly once since the pointer went down, with the
\* value the pointer last put on the slider.
C22_OneSeekAtRelease ==
  /\ player.down => (player.nSeek = 0 /\ player.isDraggingRef)
  /\ player.released =>
       /\ player.nSeek = 1
       /\ player.seekValue = <<player.dragged>>
       /\ ~player.isDraggingRef

\* a drag from 10,000 ms to 50,000 ms released on the control
C22_Witness ==
  /\ player.released /\ player.where = "control"
  /\ player.sliderValue = 50000 /\ player.dragged = 50000
  /\ player.nSeek = 1 /\ player.seekValue = <<50000>>
  /\ player.decoderMs = 50000

(* ---------------------------- specifications --------------------------- *)

\* the breaker alone: no storage event arrives
Init == CBInit /\ JobInit /\ ViewInit /\ PlayerInit /\ SwitchInit
  /\ CircuitsInit /\ AppInit /\ ReaderInit

Next == CBNext

Spec == Init /\ [][Next]_vars

\* one run of the storage trigger: the breaker is left as constructed
BreakerIdle ==
  /\ config = [failureThreshold |-> 2, resetTimeout |-> 1, halfOpenRequests |-> 1]
  /\ cb = NewBreaker
  /\ now = 1
  /\ inflight = [k \in CallKinds |-> 0]
  /\ last = InitLast
  /\ failRun = NoRun
  /\ succRun = 0
  /\ nExecute = 0
  /\ nOpFailed = 0
  /\ openedAt = NoTime

InitPipeline == BreakerIdle /\ JobInit /\ ViewInit /\ PlayerInit /\ SwitchInit
  /\ CircuitsInit /\ AppInit /\ ReaderInit

NextPipeline == JobNext

SpecPipeline == InitPipeline /\ [][NextPipeline]_vars

\* one viewer at a time on a finished Job: no storage event, the breaker idle
InitViewer == BreakerIdle /\ JobInit /\ ViewInit /\ PlayerInit /\ SwitchInit
  /\ CircuitsInit /\ AppInit /\ ReaderInit

NextViewer == ViewNext

SpecViewer == InitViewer /\ [][NextViewer]_vars

\* the position control of one mounted AudioPlayer
InitPlayer == BreakerIdle /\ JobInit /\ ViewInit /\ PlayerInit /\ SwitchInit
  /\ CircuitsInit /\ AppInit /\ ReaderInit

NextPlayer == PlayerNext

SpecPlayer == InitPlayer /\ [][NextPlayer]_vars

\* a viewer whose conversation, and with it the audio resource, is replaced
InitSwitch == BreakerIdle /\ JobInit /\ ViewInit /\ PlayerInit /\ SwitchInit
  /\ CircuitsInit /\ AppInit /\ ReaderInit

NextSwitch == SwitchNext

SpecSwitch == InitSwitch /\ [][NextSwitch]_vars

\* the alignment breaker and the analysis breaker, called in any order
InitCircuits == BreakerIdle /\ JobInit /\ ViewInit /\ PlayerInit /\ SwitchInit
  /\ CircuitsInit /\ AppInit /\ ReaderInit

NextCircuits == CircuitsNext

SpecCircuits == InitCircuits /\ [][NextCircuits]_vars

\* viewer sessions, one after the other, on the App's entry of a conversation
InitStored == BreakerIdle /\ JobInit /\ ViewInit /\ PlayerInit /\ SwitchInit
  /\ CircuitsInit /\ AppInit /\ ReaderInit

NextStored == StoredNext

SpecStored == InitStored /\ [][NextStored]_vars

\* the transcript pane of a viewer while the current time and isPlaying change
InitReader == BreakerIdle /\ JobInit /\ ViewInit /\ PlayerInit /\ SwitchInit
  /\ CircuitsInit /\ AppInit /\ ReaderInit

NextReader == ReaderNext

SpecReader == InitReader /\ [][NextReader]_vars

====
